---------------------------- MODULE Spec2Model ----------------------------
(***************************************************************************)
(* A model of the bookkeeping backend (express handlers over PostgreSQL).  *)
(*                                                                         *)
(* The state is the content of the database tables the handlers read and   *)
(* write, plus the last request served and the response it was given.      *)
(* Every handler is one action; a handler that runs two statements         *)
(* (check, then write) is one action here because the claims settled       *)
(* against these specifications are about non-overlapping requests.        *)
(*                                                                         *)
(* JSON values are tagged records, so that the JavaScript coercions the    *)
(* handlers rely on (truthiness, parseFloat, Number, +, trim) can be       *)
(* modelled by what they do.  Strings are sequences of one-character       *)
(* strings.                                                                *)
(***************************************************************************)
EXTENDS Integers, Sequences, FiniteSets, TLC

VARIABLES
    accounts,           \* rows of accounts_app.accounts
    nextAccountId,      \* the serial behind accounts.id
    transactions,       \* rows of accounts_app.transactions
    nextTransactionId,  \* the serial behind transactions.id
    daily_receivables,  \* rows of daily_receivables
    nextReceivableId,   \* the serial behind daily_receivables.id
    daily_reports,      \* rows of daily_reports
    nextReportId,       \* the serial behind daily_reports.id
    cheques,            \* rows of cheques
    nextChequeRow,      \* physical row counter of cheques (no column)
    cheque_details,     \* rows of cheque_details
    nextDetailRow,      \* physical row counter of cheque_details (no column)
    constraints,        \* the storage-level constraints of the deployment
    inflight,           \* per client: the request being served, if it is
                        \* served statement by statement
    req,                \* the request served last
    resp,               \* the response it was given
    lastPosted          \* history: per report_date, the body of the last
                        \* accepted POST /daily-receivables

vars == <<accounts, nextAccountId, transactions, nextTransactionId,
          daily_receivables, nextReceivableId, daily_reports, nextReportId,
          cheques, nextChequeRow, cheque_details, nextDetailRow,
          constraints, inflight, req, resp, lastPosted>>

-----------------------------------------------------------------------------
(* Bounds of the model. *)

MaxNameLen == 3
MaxAccountId == 3
MaxTransactionId == 2
MaxReceivableId == 2
MaxReportId == 2
MaxChequeRow == 2
MaxDetailRow == 2

-----------------------------------------------------------------------------
(* JSON / JavaScript values. *)

Undef == [t |-> "undefined"]
Null == [t |-> "null"]
NaN == [t |-> "NaN"]
Num(n) == [t |-> "number", n |-> n]
Str(s) == [t |-> "string", s |-> s]
Obj(o) == [t |-> "object", o |-> o]
Arr(a) == [t |-> "array", a |-> a]
\* A string that spells a date: "ymd" is YYYY-MM-DD, "utc" is an ISO
\* timestamp of that day ending in Z, "west" is an ISO timestamp late in
\* the evening of that day at a negative UTC offset (already the next day
\* in UTC), "bad" is a string no date can be read from.
DateStr(f, d) == [t |-> "datestring", form |-> f, day |-> d]

IsNum(x) == x.t = "number"
IsStr(x) == x.t = "string" \/ x.t = "datestring"
\* typeof x === "object" (null and arrays included)
IsObjectType(x) == x.t \in {"object", "array", "null"}

Digits == <<"0", "1", "2", "3", "4", "5", "6", "7", "8", "9">>
IsDigit(c) == \E i \in 1..10 : Digits[i] = c
DigitVal(c) == (CHOOSE i \in 1..10 : Digits[i] = c) - 1
IsWhite(c) == c = " "

\* if (x), !x
Truthy(x) ==
    CASE x.t = "undefined" -> FALSE
      [] x.t = "null" -> FALSE
      [] x.t = "NaN" -> FALSE
      [] x.t = "number" -> x.n # 0
      [] x.t = "string" -> x.s # <<>>
      [] OTHER -> TRUE

RECURSIVE TrimStart(_)
TrimStart(s) ==
    IF s # <<>> /\ IsWhite(Head(s)) THEN TrimStart(Tail(s)) ELSE s

RECURSIVE TrimEnd(_)
TrimEnd(s) ==
    IF s # <<>> /\ IsWhite(s[Len(s)])
    THEN TrimEnd(SubSeq(s, 1, Len(s) - 1))
    ELSE s

\* String.prototype.trim
Trim(s) == TrimEnd(TrimStart(s))

\* The longest prefix of s made of digits.
RECURSIVE DigitPrefix(_)
DigitPrefix(s) ==
    IF s # <<>> /\ IsDigit(Head(s))
    THEN <<Head(s)>> \o DigitPrefix(Tail(s))
    ELSE <<>>

\* The value of a non-empty sequence of digits.
RECURSIVE DigitsValue(_)
DigitsValue(s) ==
    IF s = <<>> THEN 0
    ELSE 10 * DigitsValue(SubSeq(s, 1, Len(s) - 1)) + DigitVal(s[Len(s)])

\* parseFloat on a string: leading white space is skipped, an optional
\* sign and the longest run of digits are read, what follows is ignored;
\* with no digit the result is NaN.  (The alphabet of the model has no
\* decimal point or exponent.)
ParseFloatStr(s) ==
    LET u == TrimStart(s)
        neg == u # <<>> /\ Head(u) = "-"
        body == IF neg THEN Tail(u) ELSE u
        ds == DigitPrefix(body)
    IN  IF ds = <<>> THEN NaN
        ELSE Num(IF neg THEN 0 - DigitsValue(ds) ELSE DigitsValue(ds))

\* parseFloat(x): x is converted to a string first.
ParseFloat(x) ==
    CASE x.t = "number" -> x
      [] x.t = "string" -> ParseFloatStr(x.s)
      [] OTHER -> NaN

\* Number(x) / the unary conversion the arithmetic operators apply.
ToNumber(x) ==
    CASE x.t = "number" -> x
      [] x.t = "null" -> Num(0)
      [] x.t = "string" ->
            LET u == Trim(x.s)
                neg == u # <<>> /\ Head(u) = "-"
                body == IF neg THEN Tail(u) ELSE u
            IN  IF u = <<>> THEN Num(0)
                ELSE IF body # <<>> /\ DigitPrefix(body) = body
                     THEN Num(IF neg THEN 0 - DigitsValue(body)
                                     ELSE DigitsValue(body))
                     ELSE NaN
      [] OTHER -> NaN

\* The decimal digits of a natural number.
RECURSIVE NatToDigits(_)
NatToDigits(n) ==
    IF n < 10 THEN <<Digits[n + 1]>>
    ELSE NatToDigits(n \div 10) \o <<Digits[(n % 10) + 1]>>

\* String(x), as string concatenation applies it.
ToStringSeq(x) ==
    CASE x.t = "string" -> x.s
      [] x.t = "number" ->
            IF x.n < 0 THEN <<"-">> \o NatToDigits(0 - x.n)
            ELSE NatToDigits(x.n)
      [] x.t = "undefined" -> <<"u", "n", "d", "e", "f", "i", "n", "e", "d">>
      [] x.t = "null" -> <<"n", "u", "l", "l">>
      [] OTHER -> <<"N", "a", "N">>

\* a + b: concatenation as soon as one operand is a string, addition of
\* the operands' numbers otherwise.
JsAdd(a, b) ==
    IF IsStr(a) \/ IsStr(b)
    THEN Str(ToStringSeq(a) \o ToStringSeq(b))
    ELSE LET x == ToNumber(a)
             y == ToNumber(b)
         IN  IF IsNum(x) /\ IsNum(y) THEN Num(x.n + y.n) ELSE NaN

\* a - b: always numeric.
JsSub(a, b) ==
    LET x == ToNumber(a)
        y == ToNumber(b)
    IN  IF IsNum(x) /\ IsNum(y) THEN Num(x.n - y.n) ELSE NaN

\* isNaN(x)
IsNaN(x) == ToNumber(x).t = "NaN"

None == [t |-> "none", op |-> "none", status |-> 0]

\* pg binds an undefined parameter as NULL.
Bind(x) == IF x.t = "undefined" THEN Null ELSE x

\* The report dates requests name: day d stands for 2024-01-0d.
Days == {1, 2}

\* The clients whose requests may overlap.
Clients == {1, 2}

\* No request of the client is being served.
Idle == [pc |-> "idle"]

EmptyDatabase ==
    /\ accounts = {}
    /\ nextAccountId = 1
    /\ transactions = {}
    /\ nextTransactionId = 1
    /\ daily_receivables = {}
    /\ nextReceivableId = 1
    /\ daily_reports = {}
    /\ nextReportId = 1
    /\ cheques = {}
    /\ nextChequeRow = 1
    /\ cheque_details = {}
    /\ nextDetailRow = 1
    /\ inflight = [c \in Clients |-> Idle]
    /\ req = None
    /\ resp = None
    /\ lastPosted = [d \in Days |-> None]

\* The service starts on an empty database; no constraint of the tables
\* is relied on.
Init == EmptyDatabase /\ constraints = {}

accountVars == <<accounts, nextAccountId>>
transactionVars == <<transactions, nextTransactionId>>
receivableVars == <<daily_receivables, nextReceivableId>>
reportVars == <<daily_reports, nextReportId>>
chequeVars == <<cheques, nextChequeRow>>
detailVars == <<cheque_details, nextDetailRow>>

-----------------------------------------------------------------------------
(* Accounts. *)

\* All strings over the alphabet of length at most n.
RECURSIVE StringsUpTo(_, _)
StringsUpTo(alphabet, n) ==
    IF n = 0 THEN {<<>>}
    ELSE LET shorter == StringsUpTo(alphabet, n - 1)
         IN  shorter \cup {<<c>> \o s : c \in alphabet, s \in shorter}

NameInputs ==
    {Undef, Num(7)} \cup {Str(s) : s \in StringsUpTo({" ", "a"}, MaxNameLen)}

AccountBodies ==
    [name : NameInputs, balance : {Num(5)}, balanceType : {Str(<<"d">>)}]

\* name.trim(): a TypeError unless name is a string.
CanTrim(x) == IsStr(x)

\* SELECT * FROM accounts_app.accounts WHERE name = $1
AccountsNamed(n) == {a \in accounts : a.name = n}

\* The name the handler looks up and stores.
AccountKey(name) == Str(Trim(name.s))

\* Mutant: the existence check compares the name as sent.
AccountLookupKeyUntrimmed(name) == name

\* The name the handler looks up before inserting.
AccountLookupKey(name) == AccountKey(name)

\* POST /accounts
PostAccounts(body) ==
    /\ req' = [op |-> "POST /accounts", body |-> body]
    /\ IF ~CanTrim(body.name)
       THEN /\ resp' = [status |-> 500,
                        body |-> [error |-> "Server error creating account"]]
            /\ UNCHANGED accountVars
       ELSE IF AccountsNamed(AccountLookupKey(body.name)) # {}
       THEN /\ resp' = [status |-> 400,
                        body |-> [error |-> "Account already exists."]]
            /\ UNCHANGED accountVars
       ELSE LET row == [id |-> nextAccountId,
                        name |-> AccountKey(body.name),
                        balance |-> Bind(body.balance),
                        balance_type |-> Bind(body.balanceType)]
            IN  /\ nextAccountId <= MaxAccountId
                /\ accounts' = accounts \cup {row}
                /\ nextAccountId' = nextAccountId + 1
                /\ resp' = [status |-> 201, body |-> row]
    /\ UNCHANGED <<transactionVars, receivableVars, reportVars, chequeVars,
                   detailVars, constraints, inflight, lastPosted>>

\* Mutant: the transactions of the account go with it.
DeleteAccountCascading(id) ==
    /\ req' = [op |-> "DELETE /accounts/:id", id |-> id]
    /\ accounts' = {a \in accounts : a.id # id}
    /\ transactions' = {t \in transactions : t.account_id # id}
    /\ resp' = [status |-> 200,
                body |-> [message |-> "Account deleted successfully"]]
    /\ UNCHANGED <<nextAccountId, nextTransactionId, receivableVars,
                   reportVars, chequeVars, detailVars, constraints, inflight,
                   lastPosted>>

\* DELETE /accounts/:id
DeleteAccount(id) ==
    /\ req' = [op |-> "DELETE /accounts/:id", id |-> id]
    /\ accounts' = {a \in accounts : a.id # id}
    /\ resp' = [status |-> 200,
                body |-> [message |-> "Account deleted successfully"]]
    /\ UNCHANGED <<nextAccountId, transactionVars, receivableVars, reportVars,
                   chequeVars, detailVars, constraints, inflight, lastPosted>>

NextAccounts ==
    \/ \E body \in AccountBodies : PostAccounts(body)
    \/ \E id \in 1..MaxAccountId : DeleteAccount(id)

SpecAccounts == Init /\ [][NextAccounts]_vars

\* s has no white space at either end.
IsTrimmed(s) == s = <<>> \/ (~IsWhite(s[1]) /\ ~IsWhite(s[Len(s)]))

\* s is t with white space added before and after it.
IsPadded(s, t) ==
    \E i \in 1..(Len(s) + 1) :
        /\ i + Len(t) - 1 <= Len(s)
        /\ SubSeq(s, i, i + Len(t) - 1) = t
        /\ \A k \in 1..Len(s) :
              (k < i \/ k > i + Len(t) - 1) => IsWhite(s[k])

\* C2: sequential account creation rejects duplicates.  A POST /accounts
\* whose name is the name of a stored account, with or without white space
\* around it, is answered 400 and inserts nothing; so no two account rows
\* ever carry the same name, and every stored name is trimmed.
C2_NoDuplicateAccounts ==
    /\ [](\A a, b \in accounts : a.name = b.name => a = b)
    /\ [](\A a \in accounts : IsStr(a.name) /\ IsTrimmed(a.name.s))
    /\ [][(/\ req'.op = "POST /accounts"
           /\ IsStr(req'.body.name)
           /\ \E a \in accounts : IsPadded(req'.body.name.s, a.name.s))
          => (resp'.status = 400 /\ accounts' = accounts)]_vars

\* A duplicate, sent with white space around the name, has been rejected.
C2_Witness ==
    /\ req.op = "POST /accounts"
    /\ req.body.name = Str(<<" ", "a", " ">>)
    /\ resp.status = 400
    /\ \E a \in accounts : a.name = Str(<<"a">>)
    /\ Cardinality(accounts) >= 2

-----------------------------------------------------------------------------
(* Transactions. *)

AmountInputs ==
    {Undef, Str(<<>>), Num(0), Num(5), Str(<<"0">>), Str(<<"1", "0">>),
     Str(<<"x">>)}

TransactionBodies ==
    [date : {DateStr("ymd", 1)}, debit : AmountInputs, credit : AmountInputs,
     details : {Str(<<"d">>)}]

TransactionEdits ==
    [date : {DateStr("ymd", 1)}, debit : {Undef, Num(5)}, credit : {Num(0)},
     details : {Str(<<"d">>)}]

\* The account ids the transaction routes are called with.
TransactionAccountIds == {1}

\* (!x || x === "")
NotEntered(x) == ~Truthy(x) \/ x = Str(<<>>)

\* Mutant: the blank side is parsed like the other one.
AmountOrZeroNoDefault(x) == ParseFloat(x)

\* x ? parseFloat(x) : 0
AmountOrZero(x) == IF Truthy(x) THEN ParseFloat(x) ELSE Num(0)

\* POST /accounts/:id/transactions
PostTransaction(id, body) ==
    /\ req' = [op |-> "POST /accounts/:id/transactions", id |-> id,
               body |-> body]
    /\ IF NotEntered(body.debit) /\ NotEntered(body.credit)
       THEN /\ resp' = [status |-> 400,
                        body |-> [error |->
                                  "Either debit or credit must be entered."]]
            /\ UNCHANGED transactionVars
       ELSE LET debit == AmountOrZero(body.debit)
                credit == AmountOrZero(body.credit)
                row == [id |-> nextTransactionId, account_id |-> id,
                        date |-> Bind(body.date), debit |-> debit,
                        credit |-> credit, details |-> Bind(body.details)]
            IN  IF IsNaN(debit) \/ IsNaN(credit)
                THEN /\ resp' = [status |-> 400,
                                 body |-> [error |->
                                 "Invalid numeric input for debit or credit."]]
                     /\ UNCHANGED transactionVars
                ELSE /\ nextTransactionId <= MaxTransactionId
                     /\ transactions' = transactions \cup {row}
                     /\ nextTransactionId' = nextTransactionId + 1
                     /\ resp' = [status |-> 201, body |-> row]
    /\ UNCHANGED <<accountVars, receivableVars, reportVars, chequeVars,
                   detailVars, constraints, inflight, lastPosted>>

\* UPDATE accounts_app.transactions SET ... WHERE id = $5
EditedTransaction(t, body) ==
    [t EXCEPT !.date = Bind(body.date), !.debit = Bind(body.debit),
              !.credit = Bind(body.credit), !.details = Bind(body.details)]

\* PUT /transactions/:id
PutTransaction(id, body) ==
    /\ req' = [op |-> "PUT /transactions/:id", id |-> id, body |-> body]
    /\ transactions' =
          {IF t.id = id THEN EditedTransaction(t, body) ELSE t :
             t \in transactions}
    /\ resp' = [status |-> 200,
                body |-> IF \E t \in transactions : t.id = id
                         THEN EditedTransaction(
                                 CHOOSE t \in transactions : t.id = id, body)
                         ELSE Undef]
    /\ UNCHANGED <<nextTransactionId, accountVars, receivableVars, reportVars,
                   chequeVars, detailVars, constraints, inflight, lastPosted>>

\* DELETE /transactions/:id
DeleteTransaction(id) ==
    /\ req' = [op |-> "DELETE /transactions/:id", id |-> id]
    /\ transactions' = {t \in transactions : t.id # id}
    /\ resp' = [status |-> 200,
                body |-> [message |-> "Transaction deleted successfully"]]
    /\ UNCHANGED <<nextTransactionId, accountVars, receivableVars, reportVars,
                   chequeVars, detailVars, constraints, inflight, lastPosted>>

NextTransactions ==
    \/ \E id \in TransactionAccountIds, body \in TransactionBodies :
          PostTransaction(id, body)
    \/ \E id \in 1..MaxTransactionId, body \in TransactionEdits :
          PutTransaction(id, body)
    \/ \E id \in 1..MaxTransactionId : DeleteTransaction(id)

SpecTransactions == Init /\ [][NextTransactions]_vars

\* Empty string or absent.
IsBlank(x) == x = Undef \/ x = Str(<<>>)

\* x is a string of decimal digits.
IsNumericString(x) ==
    /\ IsStr(x)
    /\ x.s # <<>>
    /\ \A k \in 1..Len(x.s) : IsDigit(x.s[k])

\* The number a string of decimal digits denotes, read left to right.
RECURSIVE DecimalValue(_, _)
DecimalValue(s, acc) ==
    IF s = <<>> THEN acc
    ELSE DecimalValue(Tail(s), 10 * acc + DigitVal(Head(s)))

\* The step inserted exactly one transaction, with these amounts, for the
\* account of the path, and returned it with 201.
InsertedTransaction(debit, credit) ==
    /\ resp'.status = 201
    /\ \E row \in transactions' :
          /\ row \notin transactions
          /\ transactions' = transactions \cup {row}
          /\ row.account_id = req'.id
          /\ row.debit = Num(debit)
          /\ row.credit = Num(credit)
          /\ resp'.body = row

\* C3: POST /accounts/:id/transactions with debit and credit both blank
\* (empty string or absent) is answered 400 and inserts no row; with one of
\* them blank and the other a numeric string it is answered 201 and inserts
\* one row, the blank side stored as 0 and the other as the number the
\* string denotes.
C3_TransactionCreation ==
    [][req'.op = "POST /accounts/:id/transactions" =>
        LET debit == req'.body.debit
            credit == req'.body.credit
        IN  /\ (IsBlank(debit) /\ IsBlank(credit)) =>
                  (resp'.status = 400 /\ transactions' = transactions)
            /\ (IsNumericString(debit) /\ IsBlank(credit)) =>
                  InsertedTransaction(DecimalValue(debit.s, 0), 0)
            /\ (IsBlank(debit) /\ IsNumericString(credit)) =>
                  InsertedTransaction(0, DecimalValue(credit.s, 0))]_vars

\* debit="10", credit="" has been stored as debit 10, credit 0.
C3_Witness ==
    /\ req.op = "POST /accounts/:id/transactions"
    /\ req.body.debit = Str(<<"1", "0">>)
    /\ req.body.credit = Str(<<>>)
    /\ resp.status = 201
    /\ resp.body.debit = Num(10)
    /\ resp.body.credit = Num(0)
    /\ resp.body \in transactions

\* C9: every transaction row inserted by POST /accounts/:id/transactions
\* has a non-zero debit or a non-zero credit, for every body the route
\* accepts.
C9_InsertedTransactionNonZero ==
    (req.op = "POST /accounts/:id/transactions" /\ resp.status = 201) =>
        /\ resp.body \in transactions
        /\ (resp.body.debit # Num(0) \/ resp.body.credit # Num(0))

-----------------------------------------------------------------------------
(* Daily receivables. *)

EmptyObject == Obj("{}")

\* Bodies of POST /daily-receivables.
ReceivableBodies ==
    [report_date : {Undef} \cup {DateStr("ymd", d) : d \in Days},
     opening_balance : {Undef, Num(5), Str(<<"7">>)},
     closing_balance : {Str(<<>>), Num(4)},
     report_data : {Str(<<"s">>), Obj("A")}]

\* The bodies the auto-save sends while the other routes are in use.
ReceivableAutoSaves ==
    {b \in ReceivableBodies :
        b.opening_balance # Num(5) /\ b.closing_balance = Str(<<>>)}

\* Bodies of PUT /daily-receivables/:date.
ReceivableUpdates ==
    [report_date : {Undef} \cup {DateStr("ymd", d) : d \in Days},
     opening_balance : {Num(7)},
     closing_balance : {Num(0)},
     report_data : {Obj("A")},
     status : {Str(<<"open">>), Str(<<"finished">>)}]

\* The :date of PUT /daily-receivables/finish/:date.
FinishDates ==
    {DateStr(f, d) : f \in {"ymd", "west"}, d \in Days}
        \cup {DateStr("bad", 0)}

\* x === "" || x === undefined ? 0 : parseFloat(x)
BalanceOrZero(x) ==
    IF x = Str(<<>>) \/ x = Undef THEN Num(0) ELSE ParseFloat(x)

\* report_data && typeof report_data === "object" ? report_data : {}
ObjectOrEmpty(x) == IF Truthy(x) /\ IsObjectType(x) THEN x ELSE EmptyObject

\* JSON.stringify(x): the text of x.
JsonStringify(x) == [t |-> "text", json |-> x]

\* The value a jsonb column holds for a JSON text.
JsonbValue(text) == text.json

\* The date a date column compares a YYYY-MM-DD parameter with.
ReportDateOf(x) == IF x.t = "datestring" THEN x.day ELSE 0

\* Mutant: the statement reports no row.
ReceivablesOnNone(day) == {}

\* The rows of a report date: SELECT * FROM daily_receivables WHERE
\* report_date = $1, and the rows a statement WHERE report_date = $n returns.
ReceivablesOn(day) == {r \in daily_receivables : r.report_date = day}

\* Mutant: the update branch writes the insert's status as well.
AutoSavedReopened(r, opening, closing, data) ==
    [r EXCEPT !.opening_balance = opening, !.closing_balance = closing,
              !.report_data = data, !.status = Str(<<"open">>)]

\* UPDATE daily_receivables SET opening_balance = $1, closing_balance = $2,
\* report_data = $3 WHERE report_date = $4
AutoSaveUpdate(r, opening, closing, data) ==
    [r EXCEPT !.opening_balance = opening, !.closing_balance = closing,
              !.report_data = data]

\* Mutant: the existence check finds nothing.
ExistingReportNever(day) == {}

\* The existence check of POST /daily-receivables.
ExistingReport(day) == ReceivablesOn(day)

\* POST /daily-receivables
PostDailyReceivables(body) ==
    /\ req' = [op |-> "POST /daily-receivables", body |-> body]
    /\ IF ~Truthy(body.report_date)
       THEN /\ resp' = [status |-> 400,
                        body |-> [error |-> "Report date is required"]]
            /\ UNCHANGED receivableVars
       ELSE LET opening == BalanceOrZero(body.opening_balance)
                closing == BalanceOrZero(body.closing_balance)
                formattedReportData ==
                    JsonStringify(ObjectOrEmpty(body.report_data))
                data == JsonbValue(formattedReportData)
                day == ReportDateOf(body.report_date)
            IN  IF ExistingReport(day) # {}
                THEN /\ daily_receivables' =
                           {IF r.report_date = day
                            THEN AutoSaveUpdate(r, opening, closing, data)
                            ELSE r : r \in daily_receivables}
                     /\ UNCHANGED nextReceivableId
                     /\ \E r \in ReceivablesOn(day) :
                           resp' = [status |-> 200,
                                    body |-> AutoSaveUpdate(r, opening,
                                                            closing, data)]
                ELSE LET row == [id |-> nextReceivableId,
                                 report_date |-> day,
                                 opening_balance |-> opening,
                                 closing_balance |-> closing,
                                 report_data |-> data,
                                 status |-> Str(<<"open">>)]
                     IN  /\ nextReceivableId <= MaxReceivableId
                         /\ daily_receivables' = daily_receivables \cup {row}
                         /\ nextReceivableId' = nextReceivableId + 1
                         /\ resp' = [status |-> 200, body |-> row]
    /\ UNCHANGED <<accountVars, transactionVars, reportVars, chequeVars,
                   detailVars, constraints, inflight>>

\* UPDATE daily_receivables SET opening_balance = $1, closing_balance = $2,
\* report_data = $3, status = $4 WHERE report_date = $5
Updated(r, body) ==
    [r EXCEPT !.opening_balance = Bind(body.opening_balance),
              !.closing_balance = Bind(body.closing_balance),
              !.report_data = Bind(body.report_data),
              !.status = Bind(body.status)]

\* daily_receivables.status may or may not be declared NOT NULL.
StatusNotNull == "daily_receivables_status_not_null"

\* The UPDATE gives a row a NULL status where the column refuses it.
UpdateReceivableFails(day, body) ==
    /\ StatusNotNull \in constraints
    /\ Bind(body.status) = Null
    /\ ReceivablesOn(day) # {}

\* PUT /daily-receivables/:date: of the two handlers registered for this
\* method and path the first answers every request and never calls next(),
\* so this is the first one.  The row is chosen by the body's report_date;
\* the :date of the path is not read.
PutDailyReceivables(date, body) ==
    LET day == ReportDateOf(body.report_date)
    IN  /\ req' = [op |-> "PUT /daily-receivables/:date", date |-> date,
                   body |-> body]
        /\ IF UpdateReceivableFails(day, body)
           THEN /\ resp' = [status |-> 500,
                            body |-> [error |-> "Failed to update report"]]
                /\ UNCHANGED daily_receivables
           ELSE /\ daily_receivables' =
                      {IF r.report_date = day THEN Updated(r, body) ELSE r :
                         r \in daily_receivables}
                /\ IF ReceivablesOn(day) = {}
                   THEN resp' = [status |-> 404,
                                 body |-> [message |->
                                           "Report not found for update"]]
                   ELSE \E r \in ReceivablesOn(day) :
                           resp' = [status |-> 200,
                                    body |-> Updated(r, body)]
        /\ UNCHANGED <<nextReceivableId, accountVars, transactionVars,
                       reportVars, chequeVars, detailVars, constraints,
                       inflight>>

\* new Date(x) can be read as a date.
IsValidDate(x) == x.t = "datestring" /\ x.form # "bad"

\* new Date(x).toISOString().split("T")[0]: the UTC day of the instant x
\* names.
ToISODay(x) == IF x.form = "west" THEN x.day + 1 ELSE x.day

\* The day whose reports WHERE report_date::TEXT LIKE $1 selects.
FinishedDay(x) == ToISODay(x)

\* Mutant: finishing a report also resets its data.
FinishedAndCleared(r) ==
    [r EXCEPT !.status = Str(<<"finished">>), !.report_data = EmptyObject]

\* UPDATE daily_receivables SET status = 'finished'
Finished(r) == [r EXCEPT !.status = Str(<<"finished">>)]

\* PUT /daily-receivables/finish/:date
FinishDailyReceivables(date) ==
    /\ req' = [op |-> "PUT /daily-receivables/finish/:date", date |-> date]
    /\ IF ~IsValidDate(date)
       THEN /\ resp' = [status |-> 500,
                        body |-> [error |-> "Failed to finish report"]]
            /\ UNCHANGED receivableVars
       ELSE LET day == FinishedDay(date)
            IN  /\ daily_receivables' =
                      {IF r.report_date = day THEN Finished(r) ELSE r :
                         r \in daily_receivables}
                /\ UNCHANGED nextReceivableId
                /\ IF ReceivablesOn(day) = {}
                   THEN resp' = [status |-> 404,
                                 body |-> [message |->
                                           "Report not found to finish"]]
                   ELSE \E r \in ReceivablesOn(day) :
                           resp' = [status |-> 200, body |-> Finished(r)]
    /\ UNCHANGED <<accountVars, transactionVars, reportVars, chequeVars,
                   detailVars, constraints, inflight>>

\* DELETE /daily-receivables/:date
DeleteDailyReceivables(date) ==
    LET day == ReportDateOf(date)
    IN  /\ req' = [op |-> "DELETE /daily-receivables/:date", date |-> date]
        /\ daily_receivables' = daily_receivables \ ReceivablesOn(day)
        /\ resp' = IF ReceivablesOn(day) = {}
                   THEN [status |-> 404,
                         body |-> [message |-> "No report found to delete"]]
                   ELSE [status |-> 200,
                         body |-> [message |-> "Report deleted successfully"]]
        /\ UNCHANGED <<nextReceivableId, accountVars, transactionVars,
                       reportVars, chequeVars, detailVars, constraints,
                       inflight>>

NextReceivables ==
    \/ \E body \in ReceivableAutoSaves :
          PostDailyReceivables(body) /\ UNCHANGED lastPosted
    \/ \E d \in Days, body \in ReceivableUpdates :
          PutDailyReceivables(DateStr("ymd", d), body) /\ UNCHANGED lastPosted
    \/ \E date \in FinishDates :
          FinishDailyReceivables(date) /\ UNCHANGED lastPosted
    \/ \E d \in Days :
          DeleteDailyReceivables(DateStr("ymd", d)) /\ UNCHANGED lastPosted

SpecReceivables == Init /\ [][NextReceivables]_vars

\* POST /daily-receivables, with the body of each accepted request kept.
RecordedPost(body) ==
    /\ PostDailyReceivables(body)
    /\ lastPosted' = IF resp'.status = 200
                     THEN [lastPosted EXCEPT ![body.report_date.day] = body]
                     ELSE lastPosted

NextReceivablesPost == \E body \in ReceivableBodies : RecordedPost(body)

\* Any sequence of non-overlapping POST /daily-receivables requests.
SpecReceivablesPost == Init /\ [][NextReceivablesPost]_vars

\* The number a posted balance stands for: 0 when blank.
PostedBalance(x) ==
    IF IsBlank(x) THEN Num(0)
    ELSE IF IsNum(x) THEN x
    ELSE Num(DecimalValue(x.s, 0))

\* The document a posted report_data stands for: itself when it is an
\* object, the empty object otherwise.
PostedData(x) == IF x.t = "object" THEN x ELSE EmptyObject

\* C4: after any sequence of POST /daily-receivables requests the table
\* holds exactly one row for each report_date posted and none for any
\* other, and that row carries the opening_balance, closing_balance and
\* report_data of the most recent POST for that date.
C4_OneRowPerDateLastWins ==
    \A d \in Days :
        LET rows == {r \in daily_receivables : r.report_date = d}
            last == lastPosted[d]
        IN  IF last = None THEN rows = {}
            ELSE /\ Cardinality(rows) = 1
                 /\ \A r \in rows :
                       /\ r.opening_balance =
                             PostedBalance(last.opening_balance)
                       /\ r.closing_balance =
                             PostedBalance(last.closing_balance)
                       /\ r.report_data = PostedData(last.report_data)

\* The report of day 1, inserted before that of day 2, has since been
\* posted again and carries the later values.
C4_Witness ==
    /\ req.op = "POST /daily-receivables"
    /\ req.body.report_date = DateStr("ymd", 1)
    /\ req.body.opening_balance = Str(<<"7">>)
    /\ req.body.report_data = Str(<<"s">>)
    /\ resp.status = 200
    /\ resp.body.id = 1
    /\ resp.body.opening_balance = Num(7)
    /\ resp.body.report_data = EmptyObject
    /\ \E r \in daily_receivables : r.id = 2 /\ r.report_date = 2
    /\ Cardinality(daily_receivables) = 2

\* C5: PUT /daily-receivables/finish/:date (:date written YYYY-MM-DD) on
\* a date that has a report sets that report's status to "finished" and
\* returns the row with 200, every other column of it and every other row
\* unchanged; on a date with no report it returns 404 and changes nothing.
C5_FinishFrame ==
    [][(req'.op = "PUT /daily-receivables/finish/:date"
        /\ req'.date.form = "ymd") =>
        LET hit == {r \in daily_receivables : r.report_date = req'.date.day}
        IN  IF hit # {}
            THEN /\ resp'.status = 200
                 /\ \E r \in hit :
                       resp'.body = [r EXCEPT !.status = Str(<<"finished">>)]
                 /\ daily_receivables' =
                       (daily_receivables \ hit) \cup
                       {[r EXCEPT !.status = Str(<<"finished">>)] : r \in hit}
            ELSE /\ resp'.status = 404
                 /\ daily_receivables' = daily_receivables]_vars

\* An open report with data has been finished while another report stays
\* open.
C5_Witness ==
    /\ req.op = "PUT /daily-receivables/finish/:date"
    /\ req.date = DateStr("ymd", 1)
    /\ resp.status = 200
    /\ resp.body.status = Str(<<"finished">>)
    /\ resp.body.report_data = Obj("A")
    /\ resp.body.opening_balance = Num(7)
    /\ resp.body \in daily_receivables
    /\ \E r \in daily_receivables :
          r.report_date = 2 /\ r.status = Str(<<"open">>)

\* A step keeps every finished row that still exists finished.
FinishedStaysFinished ==
    \A r \in daily_receivables :
        r.status = Str(<<"finished">>) =>
            \A q \in daily_receivables' :
                q.id = r.id => q.status = Str(<<"finished">>)

\* C8 as stated: once a row is finished, no request to POST
\* /daily-receivables, PUT /daily-receivables/:date or PUT
\* /daily-receivables/finish/:date changes its status, for as long as the
\* row exists.
C8_FinishedIsFinal == [][FinishedStaysFinished]_vars

\* C8 as amended: POST /daily-receivables and PUT
\* /daily-receivables/finish/:date never change the status of a finished
\* row; PUT /daily-receivables/:date writes the status of its body into
\* the row it updates, whatever the row's status was.
C8_FinishedIsFinalExceptPut ==
    [][/\ req'.op \in {"POST /daily-receivables",
                       "PUT /daily-receivables/finish/:date"}
          => FinishedStaysFinished
       /\ (req'.op = "PUT /daily-receivables/:date" /\ resp'.status = 200)
          => /\ resp'.body.status = req'.body.status
             /\ resp'.body \in daily_receivables']_vars

\* A finished report has been auto-saved and is still finished.
C8_Witness ==
    /\ req.op = "POST /daily-receivables"
    /\ resp.status = 200
    /\ resp.body.status = Str(<<"finished">>)
    /\ resp.body.opening_balance = Num(0)
    /\ resp.body \in daily_receivables

-----------------------------------------------------------------------------
(* Structured daily reports. *)

\* The keys total_proceedings is read at.
CashSales == "Cash Sales"
CreditSales == "Credit Sales"
OutboundSales == "Outbound Sales"
CashPayouts == "Cash Payouts"

\* A total_proceedings map.
Proceedings(cash, credit, outbound, payouts) ==
    Obj((CashSales :> cash) @@ (CreditSales :> credit)
          @@ (OutboundSales :> outbound) @@ (CashPayouts :> payouts))

\* The same without "Cash Payouts".
ProceedingsNoPayouts(cash, credit, outbound) ==
    Obj((CashSales :> cash) @@ (CreditSales :> credit)
          @@ (OutboundSales :> outbound))

\* Bodies of POST /daily-report and PUT /daily-report/:id, built from the
\* fields that vary; subtotal and overall_sales stand for the derived
\* fields a client sends along.
ReportBodiesOver(particulars, outbound, brought, starting, proceedings) ==
    [report_date : {DateStr("ymd", 1)},
     cash_particulars : particulars,
     credit_particulars : {Obj([x |-> Num(1)])},
     outbound_cash_sale : outbound,
     cash_correspondence : {Obj(<<>>)},
     cash_bf : brought,
     starting_cash : starting,
     total_proceedings : proceedings,
     subtotal : {Num(999)},
     overall_sales : {Num(999)}]

\* The bodies sent while reports are created, updated and deleted.
ReportBodies ==
    ReportBodiesOver(
        {Obj([a |-> Num(100), b |-> Num(50)])},
        {Obj([c |-> Num(30)])},
        {Num(20), Str(<<"2", "0">>)},
        {Num(10)},
        {Proceedings(Num(5), Num(3), Num(2), Num(4)),
         ProceedingsNoPayouts(Num(5), Num(3), Num(2)),
         Undef})

\* The bodies the derived totals are computed for.
ReportTotalsBodies ==
    ReportBodiesOver(
        {Obj([a |-> Num(100), b |-> Num(50)]), Obj(<<>>),
         Obj([a |-> Str(<<"2">>)])},
        {Obj([c |-> Num(30)]), Obj([c |-> Num(1), d |-> Num(2)])},
        {Num(20), Num(0), Str(<<"2", "0">>)},
        {Num(10), Num(0 - 5)},
        {Proceedings(Num(5), Num(3), Num(2), Num(4)),
         Proceedings(Num(1), Num(1), Num(1), Num(9)),
         ProceedingsNoPayouts(Num(5), Num(3), Num(2))})

\* Object.values(x) and x[key] throw a TypeError on undefined and null.
IsIndexable(x) == x.t \notin {"undefined", "null"}

\* x[key]: undefined when x has no such key.
Get(x, key) == IF key \in DOMAIN x.o THEN x.o[key] ELSE Undef

\* Object.values(x).reduce((sum, val) => sum + Number(val), 0)
RECURSIVE ReduceSum(_, _, _)
ReduceSum(o, keys, sum) ==
    IF keys = {} THEN sum
    ELSE LET k == CHOOSE k \in keys : TRUE
         IN  ReduceSum(o, keys \ {k}, JsAdd(sum, ToNumber(o[k])))

SumValues(x) == ReduceSum(x.o, DOMAIN x.o, Num(0))

\* The numeric columns of daily_reports may be of a type that takes NaN
\* or of one that does not.
ReportColumnsRejectNaN == "daily_reports_columns_reject_nan"

InitReports ==
    EmptyDatabase /\ constraints \in SUBSET {ReportColumnsRejectNaN}

\* The query is rejected: a derived value is NaN and the column does not
\* take it.
ReportWriteFails(derived) ==
    /\ ReportColumnsRejectNaN \in constraints
    /\ \E f \in DOMAIN derived : derived[f] = NaN

\* Mutant: a total_proceedings without one of its keys throws as well.
DerivedThrowsOnAbsentKey(body) ==
    \/ ~IsIndexable(body.outbound_cash_sale)
    \/ ~IsIndexable(body.cash_particulars)
    \/ ~IsIndexable(body.total_proceedings)
    \/ \E key \in {CashSales, CreditSales, OutboundSales, CashPayouts} :
          key \notin DOMAIN body.total_proceedings.o

\* The statements before the query throw.
DerivedThrows(body) ==
    \/ ~IsIndexable(body.outbound_cash_sale)
    \/ ~IsIndexable(body.cash_particulars)
    \/ ~IsIndexable(body.total_proceedings)

\* "Auto-calculate fields" of POST /daily-report.
PostDerived(body) ==
    LET total_cash_payouts == SumValues(body.outbound_cash_sale)
        total_cash_proceedings == SumValues(body.cash_particulars)
        subtotal == JsAdd(total_cash_payouts, total_cash_proceedings)
    IN  [total_cash_payouts |-> total_cash_payouts,
         total_cash_proceedings |-> total_cash_proceedings,
         subtotal |-> subtotal,
         cash_surplus_deficit |->
             JsSub(JsAdd(body.cash_bf, body.starting_cash), subtotal),
         overall_sales |->
             JsSub(JsAdd(JsAdd(Get(body.total_proceedings, CashSales),
                               Get(body.total_proceedings, CreditSales)),
                         Get(body.total_proceedings, OutboundSales)),
                   Get(body.total_proceedings, CashPayouts))]

\* Mutant: the update subtracts the starting cash.
PutDerivedStartingCashSubtracted(body) ==
    LET total_cash_payouts == SumValues(body.outbound_cash_sale)
        total_cash_proceedings == SumValues(body.cash_particulars)
        subtotal == JsAdd(total_cash_payouts, total_cash_proceedings)
    IN  [total_cash_payouts |-> total_cash_payouts,
         total_cash_proceedings |-> total_cash_proceedings,
         subtotal |-> subtotal,
         cash_surplus_deficit |->
             JsSub(JsSub(body.cash_bf, body.starting_cash), subtotal),
         overall_sales |->
             JsSub(JsAdd(JsAdd(Get(body.total_proceedings, CashSales),
                               Get(body.total_proceedings, CreditSales)),
                         Get(body.total_proceedings, OutboundSales)),
                   Get(body.total_proceedings, CashPayouts))]

\* "Auto-calculate updates" of PUT /daily-report/:id.
PutDerived(body) ==
    LET total_cash_payouts == SumValues(body.outbound_cash_sale)
        total_cash_proceedings == SumValues(body.cash_particulars)
        subtotal == JsAdd(total_cash_payouts, total_cash_proceedings)
    IN  [total_cash_payouts |-> total_cash_payouts,
         total_cash_proceedings |-> total_cash_proceedings,
         subtotal |-> subtotal,
         cash_surplus_deficit |->
             JsSub(JsAdd(body.cash_bf, body.starting_cash), subtotal),
         overall_sales |->
             JsSub(JsAdd(JsAdd(Get(body.total_proceedings, CashSales),
                               Get(body.total_proceedings, CreditSales)),
                         Get(body.total_proceedings, OutboundSales)),
                   Get(body.total_proceedings, CashPayouts))]

\* The columns both statements write from the body and the derived values.
ReportColumns(body, derived) ==
    [cash_particulars |-> Bind(body.cash_particulars),
     credit_particulars |-> Bind(body.credit_particulars),
     outbound_cash_sale |-> Bind(body.outbound_cash_sale),
     cash_correspondence |-> Bind(body.cash_correspondence),
     total_cash_payouts |-> derived.total_cash_payouts,
     total_cash_proceedings |-> derived.total_cash_proceedings,
     subtotal |-> derived.subtotal,
     cash_bf |-> Bind(body.cash_bf),
     starting_cash |-> Bind(body.starting_cash),
     cash_surplus_deficit |-> derived.cash_surplus_deficit,
     total_proceedings |-> Bind(body.total_proceedings),
     overall_sales |-> derived.overall_sales]

\* POST /daily-report
PostDailyReport(body) ==
    /\ req' = [op |-> "POST /daily-report", body |-> body]
    /\ IF DerivedThrows(body) \/ ReportWriteFails(PostDerived(body))
       THEN /\ resp' = [status |-> 500,
                        body |-> [error |->
                                  "Server error while creating report."]]
            /\ UNCHANGED reportVars
       ELSE LET row == [id |-> nextReportId,
                        report_date |-> Bind(body.report_date)]
                       @@ ReportColumns(body, PostDerived(body))
            IN  /\ nextReportId <= MaxReportId
                /\ daily_reports' = daily_reports \cup {row}
                /\ nextReportId' = nextReportId + 1
                /\ resp' = [status |-> 200, body |-> [report |-> row]]
    /\ UNCHANGED <<accountVars, transactionVars, receivableVars, chequeVars,
                   detailVars, constraints, inflight, lastPosted>>

\* UPDATE daily_reports SET ... WHERE id = $13
UpdatedReport(r, body) ==
    [id |-> r.id, report_date |-> r.report_date]
        @@ ReportColumns(body, PutDerived(body))

\* PUT /daily-report/:id
PutDailyReport(id, body) ==
    /\ req' = [op |-> "PUT /daily-report/:id", id |-> id, body |-> body]
    /\ IF DerivedThrows(body) \/ ReportWriteFails(PutDerived(body))
       THEN /\ resp' = [status |-> 500,
                        body |-> [error |->
                                  "Server error while updating report."]]
            /\ UNCHANGED reportVars
       ELSE /\ daily_reports' =
                  {IF r.id = id THEN UpdatedReport(r, body) ELSE r :
                     r \in daily_reports}
            /\ UNCHANGED nextReportId
            /\ resp' = [status |-> 200,
                        body |-> [report |->
                            IF \E r \in daily_reports : r.id = id
                            THEN UpdatedReport(
                                    CHOOSE r \in daily_reports : r.id = id,
                                    body)
                            ELSE Undef]]
    /\ UNCHANGED <<accountVars, transactionVars, receivableVars, chequeVars,
                   detailVars, constraints, inflight, lastPosted>>

\* DELETE /daily-report/:id
DeleteDailyReport(id) ==
    /\ req' = [op |-> "DELETE /daily-report/:id", id |-> id]
    /\ daily_reports' = {r \in daily_reports : r.id # id}
    /\ resp' = [status |-> 200,
                body |-> [message |-> "Report deleted successfully!"]]
    /\ UNCHANGED <<nextReportId, accountVars, transactionVars, receivableVars,
                   chequeVars, detailVars, constraints, inflight, lastPosted>>

NextReports ==
    \/ \E body \in ReportBodies : PostDailyReport(body)
    \/ \E id \in 1..MaxReportId, body \in ReportBodies :
          PutDailyReport(id, body)
    \/ \E id \in 1..MaxReportId : DeleteDailyReport(id)

SpecReports == InitReports /\ [][NextReports]_vars

\* The first report is created, then updated any number of times.
NextReportTotals ==
    \/ \E body \in ReportTotalsBodies :
          daily_reports = {} /\ PostDailyReport(body)
    \/ \E body \in ReportTotalsBodies : PutDailyReport(1, body)

SpecReportTotals == Init /\ [][NextReportTotals]_vars

-----------------------------------------------------------------------------
(* Claims about the structured daily reports. *)

\* Every value of the map is a JSON number.
IsNumericMap(x) ==
    x.t = "object" /\ \A k \in DOMAIN x.o : IsNum(x.o[k])

\* The body has numeric category maps, numeric cash_bf and starting_cash
\* and a total_proceedings map with the four required keys.
IsNumericReportBody(body) ==
    /\ IsNumericMap(body.cash_particulars)
    /\ IsNumericMap(body.credit_particulars)
    /\ IsNumericMap(body.outbound_cash_sale)
    /\ IsNumericMap(body.cash_correspondence)
    /\ IsNum(body.cash_bf)
    /\ IsNum(body.starting_cash)
    /\ IsNumericMap(body.total_proceedings)
    /\ {CashSales, CreditSales, OutboundSales, CashPayouts}
          \subseteq DOMAIN body.total_proceedings.o

\* The sum of the entries of a map of integers.
RECURSIVE SumOver(_, _)
SumOver(f, keys) ==
    IF keys = {} THEN 0
    ELSE LET k == CHOOSE k \in keys : TRUE
         IN  f[k].n + SumOver(f, keys \ {k})

\* The five derived values as the equations give them for a numeric body.
ExpectedDerived(body) ==
    LET payouts == SumOver(body.outbound_cash_sale.o,
                           DOMAIN body.outbound_cash_sale.o)
        proceedings == SumOver(body.cash_particulars.o,
                               DOMAIN body.cash_particulars.o)
        tp == body.total_proceedings.o
    IN  [total_cash_payouts |-> Num(payouts),
         total_cash_proceedings |-> Num(proceedings),
         subtotal |-> Num(payouts + proceedings),
         cash_surplus_deficit |->
             Num(body.cash_bf.n + body.starting_cash.n
                   - (payouts + proceedings)),
         overall_sales |->
             Num(tp[CashSales].n + tp[CreditSales].n + tp[OutboundSales].n
                   - tp[CashPayouts].n)]

\* The five derived values of a row.
DerivedOf(r) ==
    [total_cash_payouts |-> r.total_cash_payouts,
     total_cash_proceedings |-> r.total_cash_proceedings,
     subtotal |-> r.subtotal,
     cash_surplus_deficit |-> r.cash_surplus_deficit,
     overall_sales |-> r.overall_sales]

\* The last request wrote a report and answered with it.
WroteReport ==
    /\ req.op \in {"POST /daily-report", "PUT /daily-report/:id"}
    /\ resp.status = 200
    /\ resp.body.report # Undef

\* C1: for a body with numeric category maps, numeric cash_bf and
\* starting_cash and a total_proceedings map with the four required keys,
\* POST /daily-report and PUT /daily-report/:id both succeed, and the row
\* either of them writes and returns carries the same five derived values:
\* the sums of outbound_cash_sale and of cash_particulars, their sum,
\* cash_bf + starting_cash - subtotal, and Cash Sales + Credit Sales +
\* Outbound Sales - Cash Payouts of total_proceedings.
C1_DerivedTotals ==
    (/\ req.op \in {"POST /daily-report", "PUT /daily-report/:id"}
     /\ IsNumericReportBody(req.body))
    => /\ resp.status = 200
       /\ req.op = "POST /daily-report" => resp.body.report # Undef
       /\ resp.body.report # Undef =>
            /\ DerivedOf(resp.body.report) = ExpectedDerived(req.body)
            /\ resp.body.report \in daily_reports

\* The body of the worked example: subtotal 180, surplus -150.
ExampleReportBody ==
    CHOOSE body \in ReportTotalsBodies :
        /\ body.cash_particulars = Obj([a |-> Num(100), b |-> Num(50)])
        /\ body.outbound_cash_sale = Obj([c |-> Num(30)])
        /\ body.cash_bf = Num(20)
        /\ body.starting_cash = Num(10)
        /\ body.total_proceedings =
              Proceedings(Num(5), Num(3), Num(2), Num(4))

\* An update with the example body rewrote a report created from another
\* body.
C1_Witness ==
    /\ req.op = "PUT /daily-report/:id"
    /\ req.body = ExampleReportBody
    /\ WroteReport
    /\ DerivedOf(resp.body.report) =
          [total_cash_payouts |-> Num(30),
           total_cash_proceedings |-> Num(150),
           subtotal |-> Num(180),
           cash_surplus_deficit |-> Num(0 - 150),
           overall_sales |-> Num(6)]

\* C6: every row of daily_reports satisfies the derived-field equations
\* over its own stored inputs, read as numbers, after any sequence of
\* creations, updates and deletions; the derived values a client sends
\* are not what the row holds.
C6_StoredRowsSatisfyEquations ==
    \A r \in daily_reports :
        /\ r.total_cash_payouts = SumValues(r.outbound_cash_sale)
        /\ r.total_cash_proceedings = SumValues(r.cash_particulars)
        /\ r.subtotal =
              JsAdd(r.total_cash_payouts, r.total_cash_proceedings)
        /\ r.cash_surplus_deficit =
              JsSub(JsAdd(ToNumber(r.cash_bf), ToNumber(r.starting_cash)),
                    r.subtotal)
        /\ r.overall_sales =
              JsSub(JsAdd(JsAdd(
                      ToNumber(Get(r.total_proceedings, CashSales)),
                      ToNumber(Get(r.total_proceedings, CreditSales))),
                      ToNumber(Get(r.total_proceedings, OutboundSales))),
                    ToNumber(Get(r.total_proceedings, CashPayouts)))

-----------------------------------------------------------------------------
(* Cheques. *)

\* The cheques table may or may not declare cheque_number unique.
ChequeNumberUnique == "cheques_cheque_number_key"

InitCheques ==
    EmptyDatabase /\ constraints \in SUBSET {ChequeNumberUnique}

ChequeFields ==
    {"cheque_number", "bank_drawn", "payer", "payee", "amount",
     "admin_charge", "date_posted", "status"}

ChequeNumbers == {Str(<<"c", "1">>), Str(<<"c", "2">>)}

\* Bodies of POST /cheques with every field supplied and truthy.
CompleteChequeBodies ==
    [cheque_number : ChequeNumbers,
     bank_drawn : {Str(<<"b">>)},
     payer : {Str(<<"p">>)},
     payee : {Str(<<"q">>)},
     amount : {Num(5), Str(<<"7">>)},
     admin_charge : {Str(<<"2">>)},
     date_posted : {DateStr("ymd", 1), DateStr("utc", 1)},
     status : {Str(<<"n", "e", "w">>)}]

BaseChequeBody ==
    CHOOSE body \in CompleteChequeBodies :
        /\ body.cheque_number = Str(<<"c", "1">>)
        /\ body.amount = Num(5)
        /\ body.date_posted = DateStr("ymd", 1)

\* The same with one field left out, or with a zero amount or charge.
ChequeBodies ==
    CompleteChequeBodies
      \cup {[BaseChequeBody EXCEPT ![f] = Undef] : f \in ChequeFields}
      \cup {[BaseChequeBody EXCEPT !.amount = Num(0)],
            [BaseChequeBody EXCEPT !.admin_charge = Num(0)]}

\* A value a numeric column takes: a number or a string of digits.
IsPgNumeric(x) ==
    \/ IsNum(x)
    \/ x.t = "string" /\ x.s # <<>> /\ DigitPrefix(x.s) = x.s

\* The number a numeric column stores for it.
PgNumericIn(x) == IF IsNum(x) THEN x ELSE Num(DigitsValue(x.s))

\* The driver hands a numeric column over as a string.
PgNumericOut(x) == IF IsNum(x) THEN Str(ToStringSeq(x)) ELSE x

\* The row as result.rows holds it.
ResultRow(cheque) ==
    [cheque EXCEPT !.amount = PgNumericOut(cheque.amount),
                   !.admin_charge = PgNumericOut(cheque.admin_charge)]

ChequesNumbered(n) == {c \in cheques : c.cheque_number = n}

\* if (!cheque_number || !bank_drawn || ... || !status)
ChequeFieldMissing(body) == \E f \in ChequeFields : ~Truthy(body[f])

\* INSERT INTO cheques (...) VALUES ($1, ..., $8) RETURNING *
InsertedCheque(body) ==
    [row |-> nextChequeRow,
     cheque_number |-> body.cheque_number,
     bank_drawn |-> body.bank_drawn,
     payer |-> body.payer,
     payee |-> body.payee,
     amount |-> PgNumericIn(body.amount),
     admin_charge |-> PgNumericIn(body.admin_charge),
     net_to_payee |-> Null,
     date_posted |-> body.date_posted,
     status |-> body.status]

\* The insert fails in the database.
InsertChequeFails(body) ==
    \/ ~IsPgNumeric(body.amount)
    \/ ~IsPgNumeric(body.admin_charge)
    \/ /\ ChequeNumberUnique \in constraints
       /\ ChequesNumbered(body.cheque_number) # {}

\* POST /cheques
PostCheque(body) ==
    /\ req' = [op |-> "POST /cheques", body |-> body]
    /\ IF ChequeFieldMissing(body)
       THEN /\ resp' = [status |-> 400,
                        body |-> [error |-> "All cheque fields are required!"]]
            /\ UNCHANGED chequeVars
       ELSE IF InsertChequeFails(body)
       THEN /\ resp' = [status |-> 500,
                        body |-> [error |-> "Server error adding cheque"]]
            /\ UNCHANGED chequeVars
       ELSE /\ nextChequeRow <= MaxChequeRow
            /\ cheques' = cheques \cup {InsertedCheque(body)}
            /\ nextChequeRow' = nextChequeRow + 1
            /\ resp' = [status |-> 200,
                        body |-> ResultRow(InsertedCheque(body))]
    /\ UNCHANGED <<accountVars, transactionVars, receivableVars, reportVars,
                   detailVars, constraints, inflight, lastPosted>>

\* Mutant: the amounts are sent as the driver returned them.
FormattedChequeUnparsed(cheque) ==
    [cheque EXCEPT
        !.date_posted =
            IF Truthy(cheque.date_posted)
            THEN DateStr("ymd", ToISODay(cheque.date_posted))
            ELSE Null]

\* formattedCheque
FormattedCheque(cheque) ==
    [cheque EXCEPT
        !.amount = ParseFloat(cheque.amount),
        !.admin_charge = ParseFloat(cheque.admin_charge),
        !.net_to_payee = ParseFloat(cheque.net_to_payee),
        !.date_posted =
            IF Truthy(cheque.date_posted)
            THEN DateStr("ymd", ToISODay(cheque.date_posted))
            ELSE Null]

\* GET /cheques/:cheque_number; result.rows[0] is any of the rows found.
GetCheque(n) ==
    /\ req' = [op |-> "GET /cheques/:cheque_number", cheque_number |-> n]
    /\ IF ChequesNumbered(n) = {}
       THEN resp' = [status |-> 404, body |-> [error |-> "Cheque not found"]]
       ELSE \E cheque \in ChequesNumbered(n) :
               resp' = [status |-> 200,
                        body |-> FormattedCheque(ResultRow(cheque))]
    /\ UNCHANGED <<accountVars, transactionVars, receivableVars, reportVars,
                   chequeVars, detailVars, constraints, inflight, lastPosted>>

\* DELETE /cheques/:cheque_number
DeleteCheque(n) ==
    /\ req' = [op |-> "DELETE /cheques/:cheque_number", cheque_number |-> n]
    /\ IF ChequesNumbered(n) = {}
       THEN /\ resp' = [status |-> 404,
                        body |-> [error |-> "Cheque not found"]]
            /\ UNCHANGED cheques
       ELSE /\ cheques' = cheques \ ChequesNumbered(n)
            /\ resp' = [status |-> 200,
                        body |-> [message |-> "Cheque deleted successfully"]]
    /\ UNCHANGED <<nextChequeRow, accountVars, transactionVars,
                   receivableVars, reportVars, detailVars, constraints,
                   inflight, lastPosted>>

NextCheques ==
    \/ \E body \in ChequeBodies : PostCheque(body)
    \/ \E n \in ChequeNumbers : GetCheque(n)
    \/ \E n \in ChequeNumbers : DeleteCheque(n)

SpecCheques == InitCheques /\ [][NextCheques]_vars

-----------------------------------------------------------------------------
(* Claims about the cheques. *)

\* The number a posted amount stands for, posted as a number or as a
\* string of digits.
NumericValueOf(x) == IF IsNum(x) THEN x ELSE Num(DecimalValue(x.s, 0))

\* This step serves GET /cheques/:cheque_number for the cheque the request
\* before it, an accepted POST /cheques, created.
RoundTripStep ==
    /\ req.op = "POST /cheques"
    /\ resp.status = 200
    /\ req'.op = "GET /cheques/:cheque_number"
    /\ req'.cheque_number = req.body.cheque_number

\* The response of the step carries the posted amounts as numbers.
AmountsReturnedNumeric ==
    /\ resp'.body.amount = NumericValueOf(req.body.amount)
    /\ resp'.body.admin_charge = NumericValueOf(req.body.admin_charge)

\* C7 (as stated): a GET following an accepted POST /cheques returns 200
\* with cheque_number, bank_drawn, payer, payee, date_posted and status
\* equal to the posted values and amount and admin_charge equal to the
\* numeric value of what was posted.
C7_RoundTrip ==
    [][RoundTripStep =>
          /\ resp'.status = 200
          /\ \A f \in {"cheque_number", "bank_drawn", "payer", "payee",
                       "date_posted", "status"} :
                resp'.body[f] = req.body[f]
          /\ AmountsReturnedNumeric]_vars

\* C7 (amended): when the posted cheque is the only one stored under its
\* number, the GET returns 200 with cheque_number, bank_drawn, payer, payee
\* and status equal to the posted values, amount and admin_charge equal to
\* the numeric value of what was posted, and date_posted as the YYYY-MM-DD
\* day of the posted date, which is the posted value only when it was
\* posted in that form.
C7_RoundTripDayRendered ==
    [][(RoundTripStep
          /\ Cardinality(ChequesNumbered(req.body.cheque_number)) = 1) =>
          /\ resp'.status = 200
          /\ \A f \in {"cheque_number", "bank_drawn", "payer", "payee",
                       "status"} :
                resp'.body[f] = req.body[f]
          /\ AmountsReturnedNumeric
          /\ resp'.body.date_posted =
                [t |-> "datestring", form |-> "ymd",
                 day |-> req.body.date_posted.day]
          /\ req.body.date_posted.form = "ymd" =>
                resp'.body.date_posted = req.body.date_posted]_vars

\* A cheque posted with a string amount and a full timestamp, alone under
\* its number, was fetched: the amount came back as a number and the date
\* as a day.
C7_Witness ==
    /\ req.op = "GET /cheques/:cheque_number"
    /\ resp.status = 200
    /\ \E cheque \in cheques :
          /\ ChequesNumbered(req.cheque_number) = {cheque}
          /\ cheque.date_posted = DateStr("utc", 1)
          /\ cheque.amount = Num(7)
    /\ resp.body.amount = Num(7)
    /\ resp.body.admin_charge = Num(2)
    /\ resp.body.date_posted = DateStr("ymd", 1)

\* C10: POST /cheques returns 400 and inserts no row exactly when one of
\* the eight fields is missing from the body; when all eight are supplied,
\* whatever their values, exactly one row is inserted and returned.
C10_RequiredFieldValidation ==
    [][req'.op = "POST /cheques" =>
          LET missing == \E f \in ChequeFields : req'.body[f] = Undef
          IN  /\ (resp'.status = 400 /\ cheques' = cheques) <=> missing
              /\ ~missing =>
                    /\ resp'.status \in {200, 201}
                    /\ \E cheque \in cheques' \ cheques :
                          /\ cheques' = cheques \cup {cheque}
                          /\ resp'.body = ResultRow(cheque)]_vars

-----------------------------------------------------------------------------
(* Cheque details. *)

\* The cheque_details table may or may not declare cheque_number unique.
DetailNumberUnique == "cheque_details_cheque_number_key"

InitChequeDetails ==
    EmptyDatabase /\ constraints \in SUBSET {DetailNumberUnique}

\* phone_number.replace(/\D/g, "").slice(0, 20)
MaxPhoneLen == 20

\* The fields the guard trims, and those it only tests, in its order.
DetailTextFields == <<"address", "phone_number", "id_type", "id_number">>
DetailDateFields == <<"date_of_issue", "date_of_expiry", "date_of_birth">>

\* The columns of cheque_details.
DetailColumns ==
    {"cheque_number"} \cup {DetailTextFields[i] : i \in 1..4}
        \cup {DetailDateFields[i] : i \in 1..3}

\* A phone number of more digits than the column takes.
LongPhone ==
    Str(<<"+">> \o [i \in 1..(MaxPhoneLen + 2) |-> Digits[(i % 10) + 1]])

\* Bodies of POST /cheques/:cheque_number/details.
DetailBodies ==
    [address : {Undef, Str(<<" ", "x", " ">>), Str(<<"y">>), Num(5)},
     phone_number : {Str(<<"+", "1", "-", "2">>), LongPhone},
     id_type : {Str(<<"p">>), Str(<<" ">>)},
     id_number : {Str(<<" ", "9">>)},
     date_of_issue : {DateStr("west", 1), DateStr("bad", 0)},
     date_of_expiry : {DateStr("ymd", 2)},
     date_of_birth : {DateStr("utc", 1)}]

\* The bodies sent while the other detail routes are in use.
DetailSaves ==
    {b \in DetailBodies :
        /\ b.address \in {Undef, Str(<<"y">>)}
        /\ b.phone_number # LongPhone
        /\ b.id_type = Str(<<"p">>)
        /\ b.date_of_issue = DateStr("west", 1)}

\* !x?.trim(): x is undefined, null or a string of white space.
IsBlankText(x) ==
    \/ x.t \in {"undefined", "null"}
    \/ x.t = "string" /\ Trim(x.s) = <<>>

\* x?.trim() is a TypeError: x is neither nullish nor a string.
TrimThrows(x) == x.t \notin {"undefined", "null", "string"}

\* The first trimmed field at which the guard stops, 0 if it stops at none.
FirstStoppingText(body) ==
    LET stops == {i \in 1..4 :
                     \/ IsBlankText(body[DetailTextFields[i]])
                     \/ TrimThrows(body[DetailTextFields[i]])}
    IN  IF stops = {} THEN 0
        ELSE CHOOSE i \in stops : \A j \in stops : i <= j

\* What the statements before the queries come to: "missing" is the 400 of
\* the guard, "throw" an exception caught by the handler.
DetailGuard(body) ==
    LET i == FirstStoppingText(body)
    IN  IF i # 0
        THEN IF TrimThrows(body[DetailTextFields[i]])
             THEN "throw" ELSE "missing"
        ELSE IF \E k \in 1..3 : ~Truthy(body[DetailDateFields[k]])
        THEN "missing"
        ELSE IF \E k \in 1..3 : ~IsValidDate(body[DetailDateFields[k]])
        THEN "throw"
        ELSE "pass"

\* s.replace(/\D/g, "")
DigitsOf(s) == SelectSeq(s, IsDigit)

\* s.slice(0, n)
Slice(s, n) == IF Len(s) <= n THEN s ELSE SubSeq(s, 1, n)

\* Mutant: the phone number is stored as sent.
NormalizedPhoneAsSent(x) == x

\* phone_number.replace(/\D/g, "").slice(0, 20)
NormalizedPhone(x) == Str(Slice(DigitsOf(x.s), MaxPhoneLen))

\* new Date(x).toISOString().split("T")[0]
FormattedDate(x) == DateStr("ymd", ToISODay(x))

\* The values both statements write.
DetailValues(body) ==
    [address |-> Str(Trim(body.address.s)),
     phone_number |-> NormalizedPhone(body.phone_number),
     id_type |-> Str(Trim(body.id_type.s)),
     id_number |-> Str(Trim(body.id_number.s)),
     date_of_issue |-> FormattedDate(body.date_of_issue),
     date_of_expiry |-> FormattedDate(body.date_of_expiry),
     date_of_birth |-> FormattedDate(body.date_of_birth)]

\* SELECT * FROM cheque_details WHERE cheque_number = $1
DetailsNumbered(n) == {d \in cheque_details : d.cheque_number = n}

\* Mutant: the existence check finds nothing.
ExistingDetailsNever(n) == {}

\* existingDetails.rows
ExistingDetails(n) == DetailsNumbered(n)

\* UPDATE cheque_details SET address = $1, ... WHERE cheque_number = $8
DetailUpdated(d, values) ==
    [f \in DOMAIN d |-> IF f \in DOMAIN values THEN values[f] ELSE d[f]]

\* INSERT INTO cheque_details (cheque_number, address, ...)
DetailInserted(n, values) ==
    [row |-> nextDetailRow, cheque_number |-> n] @@ values

\* POST /cheques/:cheque_number/details
PostChequeDetails(n, body) ==
    /\ req' = [op |-> "POST /cheques/:cheque_number/details",
               cheque_number |-> n, body |-> body]
    /\ IF DetailGuard(body) = "missing"
       THEN /\ resp' = [status |-> 400,
                        body |-> [error |-> "All fields are required!"]]
            /\ UNCHANGED detailVars
       ELSE IF DetailGuard(body) = "throw"
       THEN /\ resp' = [status |-> 500,
                        body |-> [error |->
                                  "Server error saving cheque details"]]
            /\ UNCHANGED detailVars
       ELSE IF ExistingDetails(n) # {}
       THEN /\ cheque_details' =
                  {IF d.cheque_number = n
                   THEN DetailUpdated(d, DetailValues(body)) ELSE d :
                     d \in cheque_details}
            /\ UNCHANGED nextDetailRow
            /\ \E d \in DetailsNumbered(n) :
                  resp' = [status |-> 200,
                           body |-> DetailUpdated(d, DetailValues(body))]
       ELSE /\ nextDetailRow <= MaxDetailRow
            /\ cheque_details' =
                  cheque_details \cup {DetailInserted(n, DetailValues(body))}
            /\ nextDetailRow' = nextDetailRow + 1
            /\ resp' = [status |-> 200,
                        body |-> DetailInserted(n, DetailValues(body))]
    /\ UNCHANGED <<accountVars, transactionVars, receivableVars, reportVars,
                   chequeVars, constraints, inflight, lastPosted>>

NextChequeDetailsPost ==
    \E n \in ChequeNumbers, body \in DetailBodies : PostChequeDetails(n, body)

\* Any sequence of non-overlapping POST /cheques/:cheque_number/details.
SpecChequeDetailsPost == InitChequeDetails /\ [][NextChequeDetailsPost]_vars

-----------------------------------------------------------------------------
(* Claims about the cheque details. *)

\* Every field of the body is there: the four texts are strings with some
\* content and the three dates can be read as dates.
IsCompleteDetails(body) ==
    /\ \A i \in 1..4 :
          /\ body[DetailTextFields[i]].t = "string"
          /\ \E k \in 1..Len(body[DetailTextFields[i]].s) :
                ~IsWhite(body[DetailTextFields[i]].s[k])
    /\ \A i \in 1..3 :
          /\ body[DetailDateFields[i]].t = "datestring"
          /\ body[DetailDateFields[i]].form \in {"ymd", "utc", "west"}

\* The posted phone number normalized: its digits, the first twenty.
PostedPhone(x) ==
    LET digits == SelectSeq(x.s, LAMBDA c : c \in {Digits[i] : i \in 1..10})
    IN  Str(IF Len(digits) > 20 THEN SubSeq(digits, 1, 20) ELSE digits)

\* The posted date normalized: the YYYY-MM-DD of its UTC day.
PostedDay(x) ==
    [t |-> "datestring", form |-> "ymd",
     day |-> IF x.form = "west" THEN x.day + 1 ELSE x.day]

\* The row carries the values of the body, trimmed and normalized.
CarriesDetails(d, body) ==
    /\ d.address = Str(Trim(body.address.s))
    /\ d.id_type = Str(Trim(body.id_type.s))
    /\ d.id_number = Str(Trim(body.id_number.s))
    /\ d.phone_number = PostedPhone(body.phone_number)
    /\ d.date_of_issue = PostedDay(body.date_of_issue)
    /\ d.date_of_expiry = PostedDay(body.date_of_expiry)
    /\ d.date_of_birth = PostedDay(body.date_of_birth)

\* C11: POST /cheques/:cheque_number/details is an upsert by cheque_number.
\* Over any sequence of such requests no cheque_number has two rows, and a
\* request with a complete body is answered 200 and leaves exactly one row
\* for its number, carrying its trimmed address, id_type and id_number and
\* its normalized dates and phone number; when there was no row it adds
\* one, otherwise it rewrites the row that was there; the rows of the other
\* numbers stay as they were.
C11_DetailsUpsert ==
    /\ [](\A n \in ChequeNumbers : Cardinality(DetailsNumbered(n)) <= 1)
    /\ [][(/\ req'.op = "POST /cheques/:cheque_number/details"
           /\ IsCompleteDetails(req'.body)) =>
            LET n == req'.cheque_number
                before == DetailsNumbered(n)
                after == {d \in cheque_details' : d.cheque_number = n}
            IN  /\ resp'.status = 200
                /\ \E d \in after :
                      /\ after = {d}
                      /\ CarriesDetails(d, req'.body)
                      /\ resp'.body = d
                      /\ \A b \in before : b.row = d.row
                /\ cheque_details' \ after = cheque_details \ before
                /\ Cardinality(cheque_details') =
                      IF before = {} THEN Cardinality(cheque_details) + 1
                      ELSE Cardinality(cheque_details)]_vars

\* Both numbers have their row, and the number whose row came first was
\* posted again: its row was rewritten with a long phone number cut to
\* twenty digits and a padded address trimmed.
C11_Witness ==
    /\ req.op = "POST /cheques/:cheque_number/details"
    /\ resp.status = 200
    /\ Cardinality(cheque_details) = 2
    /\ req.body.phone_number = LongPhone
    /\ req.body.address = Str(<<" ", "x", " ">>)
    /\ \E d \in cheque_details :
          /\ d.row = 1
          /\ d.cheque_number = req.cheque_number
          /\ d.address = Str(<<"x">>)
          /\ Len(d.phone_number.s) = 20
          /\ d.date_of_issue = DateStr("ymd", 2)

-----------------------------------------------------------------------------
(* The status of a cheque. *)

\* The statuses PATCH /cheques/:cheque_number/status is sent.
StatusInputs ==
    {Str(<<"c", "l", "e", "a", "r", "e", "d">>), Str(<<"n", "e", "w">>),
     Str(<<>>)}

\* The cheques posted while statuses are set.
StatusChequeBodies ==
    {b \in CompleteChequeBodies :
        b.amount = Num(5) /\ b.date_posted = DateStr("ymd", 1)}

\* Mutant: a cheque that has left the status "new" keeps its status.
StatusSetOnce(cheque, status) ==
    IF cheque.status = Str(<<"n", "e", "w">>)
    THEN [cheque EXCEPT !.status = Bind(status)]
    ELSE cheque

\* UPDATE cheques SET status = $1
StatusSet(cheque, status) == [cheque EXCEPT !.status = Bind(status)]

\* PATCH /cheques/:cheque_number/status
PatchChequeStatus(n, body) ==
    /\ req' = [op |-> "PATCH /cheques/:cheque_number/status",
               cheque_number |-> n, body |-> body]
    /\ IF ChequesNumbered(n) = {}
       THEN /\ resp' = [status |-> 404,
                        body |-> [error |-> "Cheque not found!"]]
            /\ UNCHANGED cheques
       ELSE /\ cheques' =
                  {IF c.cheque_number = n THEN StatusSet(c, body.status)
                   ELSE c : c \in cheques}
            /\ \E c \in ChequesNumbered(n) :
                  resp' = [status |-> 200,
                           body |-> ResultRow(StatusSet(c, body.status))]
    /\ UNCHANGED <<nextChequeRow, accountVars, transactionVars,
                   receivableVars, reportVars, detailVars, constraints,
                   inflight, lastPosted>>

NextChequeStatus ==
    \/ \E body \in StatusChequeBodies : PostCheque(body)
    \/ \E n \in ChequeNumbers, status \in StatusInputs :
          PatchChequeStatus(n, [status |-> status])
    \/ \E n \in ChequeNumbers : DeleteCheque(n)

SpecChequeStatus == InitCheques /\ [][NextChequeStatus]_vars

\* C12: PATCH /cheques/:cheque_number/status on an existing cheque sets its
\* status to the string sent, whatever it is and whatever the status was,
\* and changes no other column of it, no other cheque and no other table;
\* with no cheque of that number it is answered 404 and changes nothing.
C12_StatusPatch ==
    [][req'.op = "PATCH /cheques/:cheque_number/status" =>
          LET n == req'.cheque_number
              status == req'.body.status
          IN  /\ ChequesNumbered(n) = {} =>
                    (resp'.status = 404 /\ cheques' = cheques)
              /\ ChequesNumbered(n) # {} =>
                    /\ resp'.status = 200
                    /\ resp'.body.status = status
                    /\ \A c \in cheques' :
                          c.cheque_number = n => c.status = status
                    /\ {[c EXCEPT !.status = status] : c \in cheques'}
                          = {[c EXCEPT !.status = status] : c \in cheques}
                    /\ \A c \in cheques :
                          c.cheque_number # n => c \in cheques'
                    /\ Cardinality(cheques') = Cardinality(cheques)
              /\ UNCHANGED <<nextChequeRow, accountVars, transactionVars,
                             receivableVars, reportVars, detailVars>>]_vars

\* A cheque that was "cleared" has been set back to "new" while the cheque
\* of the other number kept its status "cleared".
C12_Witness ==
    /\ req.op = "PATCH /cheques/:cheque_number/status"
    /\ resp.status = 200
    /\ req.body.status = Str(<<"n", "e", "w">>)
    /\ \E c, o \in cheques :
          /\ c.cheque_number = req.cheque_number
          /\ c.row = 1
          /\ c.status = Str(<<"n", "e", "w">>)
          /\ o.cheque_number # req.cheque_number
          /\ o.status = Str(<<"c", "l", "e", "a", "r", "e", "d">>)

-----------------------------------------------------------------------------
(* Deleting an account that has transactions and a cheque that has
   details. *)

\* The one account, transaction, cheque and details body sent here.
LedgerAccountBody ==
    [name |-> Str(<<"a">>), balance |-> Num(5), balanceType |-> Str(<<"d">>)]
LedgerTransactionBody ==
    [date |-> DateStr("ymd", 1), debit |-> Num(5), credit |-> Undef,
     details |-> Str(<<"d">>)]

\* Transactions are posted to accounts that exist and details to cheques
\* that exist; accounts and cheques are deleted at any time.
NextNoCascade ==
    \/ PostAccounts(LedgerAccountBody)
    \/ \E a \in accounts : PostTransaction(a.id, LedgerTransactionBody)
    \/ \E id \in 1..MaxAccountId : DeleteAccount(id)
    \/ PostCheque(BaseChequeBody)
    \/ \E c \in cheques, body \in DetailSaves :
          PostChequeDetails(c.cheque_number, body)
    \/ \E n \in ChequeNumbers : DeleteCheque(n)

SpecNoCascade == InitCheques /\ [][NextNoCascade]_vars

\* C13: deletes do not cascade.  DELETE /accounts/:id leaves every
\* transaction row unchanged, those of the deleted account included, and
\* DELETE /cheques/:cheque_number leaves every cheque_details row
\* unchanged, the one of that cheque_number included.
C13_NoCascade ==
    [][/\ req'.op = "DELETE /accounts/:id" =>
             (transactions' = transactions
                /\ nextTransactionId' = nextTransactionId)
       /\ req'.op = "DELETE /cheques/:cheque_number" =>
             (cheque_details' = cheque_details
                /\ nextDetailRow' = nextDetailRow)]_vars

\* A cheque that had details has just been deleted and its details are
\* still stored, and a transaction is stored whose account was deleted.
C13_Witness ==
    /\ req.op = "DELETE /cheques/:cheque_number"
    /\ resp.status = 200
    /\ ChequesNumbered(req.cheque_number) = {}
    /\ DetailsNumbered(req.cheque_number) # {}
    /\ \E t \in transactions : \A a \in accounts : a.id # t.account_id

-----------------------------------------------------------------------------
(* The three upsert-by-key routes and their required fields. *)

\* A complete details body, and the same with one field left out.
BaseDetailBody ==
    CHOOSE b \in DetailSaves : b.address = Str(<<"y">>)

DetailBodiesMissingOne ==
    {BaseDetailBody}
      \cup {[BaseDetailBody EXCEPT ![f] = Undef] :
              f \in DetailColumns \ {"cheque_number"}}

\* POST /accounts with a name and without.
RequiredNameBodies ==
    {b \in AccountBodies : b.name \in {Undef, Str(<<"a">>)}}

NextRequiredFields ==
    \/ \E body \in RequiredNameBodies : PostAccounts(body)
    \/ \E body \in ReceivableAutoSaves :
          PostDailyReceivables(body) /\ UNCHANGED lastPosted
    \/ \E n \in ChequeNumbers, body \in DetailBodiesMissingOne :
          PostChequeDetails(n, body)

SpecRequiredFields == Init /\ [][NextRequiredFields]_vars

\* The request leaves one of the required fields of its route out.
RequiredFieldAbsent(r) ==
    \/ r.op = "POST /accounts" /\ r.body.name = Undef
    \/ r.op = "POST /daily-receivables" /\ r.body.report_date = Undef
    \/ /\ r.op = "POST /cheques/:cheque_number/details"
       /\ \E f \in DetailColumns \ {"cheque_number"} : r.body[f] = Undef

\* C14: in each upsert-by-key handler a request whose required field is
\* absent from the body is answered 400 and writes nothing: name for
\* POST /accounts, report_date for POST /daily-receivables and each of the
\* seven fields of POST /cheques/:cheque_number/details.
C14_RequiredFieldAbsent ==
    [][RequiredFieldAbsent(req') =>
          /\ resp'.status = 400
          /\ UNCHANGED <<accountVars, receivableVars, detailVars>>]_vars

-----------------------------------------------------------------------------
(* A total_proceedings that lacks a required key. *)

\* The body's total_proceedings is a map without one of the four keys.
LacksProceedingsKey(body) ==
    /\ body.total_proceedings.t = "object"
    /\ \E key \in {CashSales, CreditSales, OutboundSales, CashPayouts} :
          key \notin DOMAIN body.total_proceedings.o

\* The step serves a report write whose total_proceedings lacks a key.
LackingWriteStep ==
    /\ req'.op \in {"POST /daily-report", "PUT /daily-report/:id"}
    /\ LacksProceedingsKey(req'.body)

\* C15 (as stated): a POST /daily-report or PUT /daily-report/:id whose
\* total_proceedings lacks one of the four required keys is answered 500
\* and no daily_reports row is inserted or modified.
C15_AbsentKeyFails ==
    [][LackingWriteStep =>
          (resp'.status = 500 /\ UNCHANGED reportVars)]_vars

\* C15 (amended): such a request does not fail in the computation.  The
\* absent entry makes overall_sales NaN and the write is attempted: unless
\* the store rejects NaN the request is answered 200 and the row inserted
\* or updated carries overall_sales NaN; a 500 comes from the store
\* rejecting the value only, and then nothing is written.  A body without
\* any total_proceedings is answered 500 and writes nothing.
C15_AbsentKeyGivesNaN ==
    [][/\ LackingWriteStep =>
            IF ReportColumnsRejectNaN \in constraints
            THEN resp'.status = 500 /\ UNCHANGED reportVars
            ELSE /\ resp'.status = 200
                 /\ req'.op = "POST /daily-report" =>
                       resp'.body.report \in daily_reports' \ daily_reports
                 /\ resp'.body.report # Undef =>
                       /\ resp'.body.report.overall_sales = NaN
                       /\ resp'.body.report \in daily_reports'
       /\ (/\ req'.op \in {"POST /daily-report", "PUT /daily-report/:id"}
           /\ req'.body.total_proceedings = Undef) =>
             (resp'.status = 500 /\ UNCHANGED reportVars)]_vars

\* A report whose total_proceedings has no "Cash Payouts" was created with
\* status 200 and is stored with overall_sales NaN.
C15_Witness ==
    /\ req.op = "POST /daily-report"
    /\ LacksProceedingsKey(req.body)
    /\ resp.status = 200
    /\ resp.body.report \in daily_reports
    /\ resp.body.report.overall_sales = NaN
    /\ resp.body.report.subtotal = Num(180)

-----------------------------------------------------------------------------
(* Two POST /accounts served at the same time.  The handler awaits its
   SELECT and then its INSERT: each query is one step, and the steps of the
   two requests interleave. *)

\* accounts.name may or may not be declared unique.
AccountNameUnique == "accounts_name_key"

InitAccountsRace ==
    EmptyDatabase /\ constraints \in SUBSET {AccountNameUnique}

\* The bodies the two clients send.
RaceAccountBodies ==
    {b \in AccountBodies :
        b.name \in {Undef, Str(<<"a">>), Str(<<" ", "a">>),
                    Str(<<"a", "a">>)}}

\* The request of client c has been answered.
Answered(c, body, response) ==
    /\ inflight' = [inflight EXCEPT
                       ![c] = [pc |-> "answered", body |-> body,
                               resp |-> response]]
    /\ resp' = response

\* From the start of the handler to the end of its SELECT.
BeginPostAccounts(c, body) ==
    /\ inflight[c] = Idle
    /\ req' = [op |-> "POST /accounts", body |-> body]
    /\ IF ~CanTrim(body.name)
       THEN Answered(c, body,
                     [status |-> 500,
                      body |-> [error |-> "Server error creating account"]])
       ELSE IF AccountsNamed(AccountLookupKey(body.name)) # {}
       THEN Answered(c, body,
                     [status |-> 400,
                      body |-> [error |-> "Account already exists."]])
       ELSE /\ inflight' = [inflight EXCEPT
                               ![c] = [pc |-> "checked", body |-> body]]
            /\ UNCHANGED resp
    /\ UNCHANGED <<accountVars, transactionVars, receivableVars, reportVars,
                   chequeVars, detailVars, constraints, lastPosted>>

\* Mutant: the insert is refused whenever the name is taken.
InsertAccountRefusedWhenTaken(name) == AccountsNamed(name) # {}

\* The INSERT violates the unique constraint, if there is one.
InsertAccountFails(name) ==
    AccountNameUnique \in constraints /\ AccountsNamed(name) # {}

\* The INSERT of the handler and its response.
FinishPostAccounts(c) ==
    LET body == inflight[c].body
        row == [id |-> nextAccountId,
                name |-> AccountKey(body.name),
                balance |-> Bind(body.balance),
                balance_type |-> Bind(body.balanceType)]
    IN  /\ inflight[c].pc = "checked"
        /\ IF InsertAccountFails(AccountKey(body.name))
           THEN /\ Answered(c, body,
                      [status |-> 500,
                       body |-> [error |-> "Server error creating account"]])
                /\ UNCHANGED accountVars
           ELSE /\ nextAccountId <= MaxAccountId
                /\ accounts' = accounts \cup {row}
                /\ nextAccountId' = nextAccountId + 1
                /\ Answered(c, body, [status |-> 201, body |-> row])
        /\ UNCHANGED <<req, transactionVars, receivableVars, reportVars,
                       chequeVars, detailVars, constraints, lastPosted>>

NextAccountsRace ==
    \/ \E c \in Clients, body \in RaceAccountBodies :
          BeginPostAccounts(c, body)
    \/ \E c \in Clients : FinishPostAccounts(c)

SpecAccountsRace == InitAccountsRace /\ [][NextAccountsRace]_vars

\* Client c was answered 201.
Created(c) ==
    inflight[c].pc = "answered" /\ inflight[c].resp.status = 201

\* C16: with no uniqueness constraint on accounts.name, a POST /accounts
\* whose existence check found nothing is answered 201 and adds its row
\* whatever was inserted since the check; so when the checks of two
\* requests with the same trimmed name both run before either insert, both
\* are answered 201 and two account rows carry that name.
C16_CheckThenInsertRace ==
    /\ [][(/\ AccountNameUnique \notin constraints
           /\ \E c \in Clients :
                 /\ inflight[c].pc = "checked"
                 /\ inflight'[c].pc = "answered")
          => \E c \in Clients :
                /\ inflight[c].pc = "checked"
                /\ inflight'[c].pc = "answered"
                /\ inflight'[c].resp.status = 201
                /\ inflight'[c].resp.body \in accounts' \ accounts]_vars
    /\ []((/\ Created(1) /\ Created(2)
           /\ inflight[1].resp.body.name = inflight[2].resp.body.name)
          => /\ inflight[1].resp.body # inflight[2].resp.body
             /\ {inflight[1].resp.body, inflight[2].resp.body}
                   \subseteq accounts)

\* Both requests, one sent with "a" and one with " a", were answered 201
\* and the table holds two rows named "a".
C16_Witness ==
    /\ AccountNameUnique \notin constraints
    /\ Created(1) /\ Created(2)
    /\ inflight[1].body.name = Str(<<"a">>)
    /\ inflight[2].body.name = Str(<<" ", "a">>)
    /\ Cardinality(AccountsNamed(Str(<<"a">>))) = 2

-----------------------------------------------------------------------------
(* Two POST /daily-receivables served at the same time: the SELECT of the
   handler is one step, its UPDATE or INSERT another. *)

\* daily_receivables.report_date may or may not be declared unique.
ReportDateUnique == "daily_receivables_report_date_key"

InitReceivablesRace ==
    EmptyDatabase /\ constraints \in SUBSET {ReportDateUnique}

\* From the start of the handler to the end of its SELECT.
BeginPostDailyReceivables(c, body) ==
    /\ inflight[c] = Idle
    /\ req' = [op |-> "POST /daily-receivables", body |-> body]
    /\ IF ~Truthy(body.report_date)
       THEN Answered(c, body,
                     [status |-> 400,
                      body |-> [error |-> "Report date is required"]])
       ELSE /\ inflight' =
                  [inflight EXCEPT
                      ![c] = [pc |-> IF ExistingReport(
                                           ReportDateOf(body.report_date))
                                           # {}
                                     THEN "found" ELSE "notfound",
                              body |-> body]]
            /\ UNCHANGED resp
    /\ UNCHANGED <<accountVars, transactionVars, receivableVars, reportVars,
                   chequeVars, detailVars, constraints, lastPosted>>

\* Mutant: the INSERT is accepted whatever the table holds.
InsertReceivableAlwaysAccepted(day) == FALSE

\* The INSERT violates the unique constraint, if there is one.
InsertReceivableFails(day) ==
    ReportDateUnique \in constraints /\ ReceivablesOn(day) # {}

\* The UPDATE or the INSERT of the handler, and its response.
FinishPostDailyReceivables(c) ==
    LET body == inflight[c].body
        opening == BalanceOrZero(body.opening_balance)
        closing == BalanceOrZero(body.closing_balance)
        data == JsonbValue(JsonStringify(ObjectOrEmpty(body.report_data)))
        day == ReportDateOf(body.report_date)
        row == [id |-> nextReceivableId, report_date |-> day,
                opening_balance |-> opening, closing_balance |-> closing,
                report_data |-> data, status |-> Str(<<"open">>)]
    IN  /\ inflight[c].pc \in {"found", "notfound"}
        /\ IF inflight[c].pc = "found"
           THEN /\ daily_receivables' =
                      {IF r.report_date = day
                       THEN AutoSaveUpdate(r, opening, closing, data)
                       ELSE r : r \in daily_receivables}
                /\ UNCHANGED nextReceivableId
                /\ \E r \in ReceivablesOn(day) :
                      Answered(c, body,
                               [status |-> 200,
                                body |-> AutoSaveUpdate(r, opening, closing,
                                                        data)])
           ELSE IF InsertReceivableFails(day)
           THEN /\ Answered(c, body,
                      [status |-> 500,
                       body |-> [error |->
                                 "Failed to create or update report"]])
                /\ UNCHANGED receivableVars
           ELSE /\ nextReceivableId <= MaxReceivableId
                /\ daily_receivables' = daily_receivables \cup {row}
                /\ nextReceivableId' = nextReceivableId + 1
                /\ Answered(c, body, [status |-> 200, body |-> row])
        /\ UNCHANGED <<req, accountVars, transactionVars, reportVars,
                       chequeVars, detailVars, constraints, lastPosted>>

NextReceivablesRace ==
    \/ \E c \in Clients, body \in ReceivableBodies :
          BeginPostDailyReceivables(c, body)
    \/ \E c \in Clients : FinishPostDailyReceivables(c)

SpecReceivablesRace == InitReceivablesRace /\ [][NextReceivablesRace]_vars

\* Client c, which posted for day d, has been answered.
AnsweredFor(c, d) ==
    /\ inflight[c].pc = "answered"
    /\ inflight[c].body.report_date = DateStr("ymd", d)

\* C17: with daily_receivables.report_date uniquely constrained, once two
\* concurrent POST /daily-receivables for the same date, absent at first,
\* are both answered, exactly one row exists for that date; and a request
\* that observed "not found" and whose insert comes after the other's is
\* answered 500 and leaves the table as it was.
C17_UpsertRaceUnderUniqueKey ==
    /\ [](ReportDateUnique \in constraints =>
            \A d \in Days :
               /\ Cardinality(ReceivablesOn(d)) <= 1
               /\ (AnsweredFor(1, d) /\ AnsweredFor(2, d))
                     => Cardinality(ReceivablesOn(d)) = 1)
    /\ [][(ReportDateUnique \in constraints) =>
            \A c \in Clients :
               (/\ inflight[c].pc = "notfound"
                /\ inflight'[c].pc = "answered"
                /\ ReceivablesOn(ReportDateOf(inflight[c].body.report_date))
                      # {})
               => (/\ inflight'[c].resp.status = 500
                   /\ daily_receivables' = daily_receivables)]_vars

\* Both requests for day 1 found no report; the insert of client 1 came
\* first and was answered 200, that of client 2 was answered 500 and the
\* one row of day 1 carries the values of client 1.
C17_Witness ==
    /\ ReportDateUnique \in constraints
    /\ AnsweredFor(1, 1) /\ AnsweredFor(2, 1)
    /\ inflight[1].body.opening_balance = Num(5)
    /\ inflight[2].body.opening_balance = Str(<<"7">>)
    /\ inflight[1].resp.status = 200
    /\ inflight[2].resp.status = 500
    /\ \E r \in daily_receivables :
          /\ daily_receivables = {r}
          /\ r.report_date = 1
          /\ r.opening_balance = Num(5)

-----------------------------------------------------------------------------
(* The report_data the two writing routes of daily receivables store. *)

\* Bodies of PUT /daily-receivables/:date with and without a document.
ReceivableDataUpdates ==
    [report_date : {DateStr("ymd", d) : d \in Days},
     opening_balance : {Num(7)},
     closing_balance : {Num(0)},
     report_data : {Obj("A"), Num(5)},
     status : {Str(<<"open">>)}]

NextReceivablesData ==
    \/ \E body \in ReceivableBodies :
          PostDailyReceivables(body) /\ UNCHANGED lastPosted
    \/ \E d \in Days, body \in ReceivableDataUpdates :
          PutDailyReceivables(DateStr("ymd", d), body) /\ UNCHANGED lastPosted

SpecReceivablesData == Init /\ [][NextReceivablesData]_vars

\* C18: the report_data stored in every daily_receivables row is a JSON
\* object, after any sequence of POST /daily-receivables and
\* PUT /daily-receivables/:date requests.
C18_ReportDataIsObject ==
    \A r \in daily_receivables : r.report_data.t = "object"

-----------------------------------------------------------------------------
(* Partial update and retrieval of cheque details. *)

\* Bodies of PATCH /cheques/:cheque_number/details.
DetailPatches ==
    {[phone_number |-> Str(<<"+", "1", "-", "2">>)],
     [phone_number |-> Str(<<"3", "4">>)],
     [address |-> Str(<<"z">>), phone_number |-> Null],
     [phone_number |-> Null],
     [nickname |-> Str(<<"z">>)],
     [cheque_number |-> Str(<<"c", "2">>)]}

\* The keys the loop keeps: value !== undefined && value !== null
FieldsToUpdate(updates) ==
    {k \in DOMAIN updates : updates[k].t \notin {"undefined", "null"}}

\* UPDATE cheque_details SET <key> = <value>, ... names a column the table
\* does not have, or gives the row the number of another row where the
\* numbers are unique.
PatchFails(n, updates) ==
    \/ FieldsToUpdate(updates) \ DetailColumns # {}
    \/ /\ DetailNumberUnique \in constraints
       /\ "cheque_number" \in FieldsToUpdate(updates)
       /\ \E d \in cheque_details :
             /\ d.cheque_number # n
             /\ d.cheque_number = updates["cheque_number"]

\* UPDATE cheque_details SET <key> = <value>, ... WHERE cheque_number = $n
DetailPatched(d, updates) ==
    [f \in DOMAIN d |->
        IF f \in FieldsToUpdate(updates) THEN updates[f] ELSE d[f]]

\* PATCH /cheques/:cheque_number/details
PatchChequeDetails(n, updates) ==
    /\ req' = [op |-> "PATCH /cheques/:cheque_number/details",
               cheque_number |-> n, body |-> updates]
    /\ IF DetailsNumbered(n) = {}
       THEN /\ resp' = [status |-> 404,
                        body |-> [error |-> "Cheque details not found!"]]
            /\ UNCHANGED cheque_details
       ELSE IF FieldsToUpdate(updates) = {}
       THEN /\ resp' = [status |-> 400,
                        body |-> [error |->
                                  "No valid fields provided for update!"]]
            /\ UNCHANGED cheque_details
       ELSE IF PatchFails(n, updates)
       THEN /\ resp' = [status |-> 500,
                        body |-> [error |->
                                  "Server error updating cheque details"]]
            /\ UNCHANGED cheque_details
       ELSE /\ cheque_details' =
                  {IF d.cheque_number = n
                   THEN DetailPatched(d, updates) ELSE d :
                     d \in cheque_details}
            /\ \E d \in DetailsNumbered(n) :
                  resp' = [status |-> 200, body |-> DetailPatched(d, updates)]
    /\ UNCHANGED <<nextDetailRow, accountVars, transactionVars,
                   receivableVars, reportVars, chequeVars, constraints,
                   inflight, lastPosted>>

\* GET /cheques/:cheque_number/details
GetChequeDetails(n) ==
    /\ req' = [op |-> "GET /cheques/:cheque_number/details",
               cheque_number |-> n]
    /\ IF DetailsNumbered(n) = {}
       THEN resp' = [status |-> 404,
                     body |-> [error |-> "Cheque details not found"]]
       ELSE \E d \in DetailsNumbered(n) :
               resp' = [status |-> 200, body |-> d]
    /\ UNCHANGED <<detailVars, accountVars, transactionVars, receivableVars,
                   reportVars, chequeVars, constraints, inflight, lastPosted>>

NextChequeDetails ==
    \/ \E n \in ChequeNumbers, body \in DetailSaves :
          PostChequeDetails(n, body)
    \/ \E n \in ChequeNumbers, updates \in DetailPatches :
          PatchChequeDetails(n, updates)
    \/ \E n \in ChequeNumbers : GetChequeDetails(n)

SpecChequeDetails == InitChequeDetails /\ [][NextChequeDetails]_vars

\* C19: the phone_number of every cheque_details row consists of digits
\* only and has at most 20 characters, after any sequence of POST and PATCH
\* /cheques/:cheque_number/details requests.
C19_PhoneDigitsOnly ==
    \A d \in cheque_details :
        /\ d.phone_number.t = "string"
        /\ Len(d.phone_number.s) <= 20
        /\ \A i \in 1..Len(d.phone_number.s) : IsDigit(d.phone_number.s[i])

-----------------------------------------------------------------------------
(* All the routes that answer 400 or 404, called in any order. *)

\* The number of rows the routes may insert into the tables together.
MaxStoreRows == 2

\* The rows inserted so far, by the sequences that number them.
InsertedRows ==
    (nextAccountId - 1) + (nextTransactionId - 1) + (nextReceivableId - 1)
        + (nextReportId - 1) + (nextChequeRow - 1) + (nextDetailRow - 1)

\* The step stays within the number of rows explored.
WithinStore == InsertedRows' <= MaxStoreRows

\* GET /daily-receivables/:date
GetDailyReceivables(date) ==
    /\ req' = [op |-> "GET /daily-receivables/:date", date |-> date]
    /\ IF ~IsValidDate(date)
       THEN resp' = [status |-> 500,
                     body |-> [error |->
                               "Server error while retrieving report"]]
       ELSE IF ReceivablesOn(ToISODay(date)) = {}
       THEN resp' = [status |-> 404,
                     body |-> [message |-> "No report found for this date"]]
       ELSE \E r \in ReceivablesOn(ToISODay(date)) :
               resp' = [status |-> 200, body |-> r]
    /\ UNCHANGED <<receivableVars, accountVars, transactionVars, reportVars,
                   chequeVars, detailVars, constraints, inflight, lastPosted>>

\* SELECT * FROM daily_reports WHERE report_date = $1::date
ReportsOn(date) ==
    {r \in daily_reports :
        /\ r.report_date.t = "datestring"
        /\ r.report_date.day = date.day}

\* GET /daily-report/:date
GetDailyReport(date) ==
    /\ req' = [op |-> "GET /daily-report/:date", date |-> date]
    /\ IF ~IsValidDate(date)
       THEN resp' = [status |-> 500,
                     body |-> [error |->
                               "Server error while retrieving report."]]
       ELSE IF ReportsOn(date) = {}
       THEN resp' = [status |-> 404,
                     body |-> [message |-> "No report found for this date"]]
       ELSE \E r \in ReportsOn(date) :
               resp' = [status |-> 200, body |-> r]
    /\ UNCHANGED <<reportVars, accountVars, transactionVars, receivableVars,
                   chequeVars, detailVars, constraints, inflight, lastPosted>>

\* The bodies each route is sent: one it accepts and one it refuses.
RouteTransactionBodies ==
    {LedgerTransactionBody, [LedgerTransactionBody EXCEPT !.debit = Undef]}
RouteReceivableBodies ==
    {b \in ReceivableAutoSaves :
        /\ b.report_date # DateStr("ymd", 2)
        /\ b.opening_balance = Undef
        /\ b.report_data = Obj("A")}
RouteReceivableUpdates ==
    {b \in ReceivableUpdates :
        b.report_date # Undef /\ b.status = Str(<<"finished">>)}
RouteChequeBodies ==
    {BaseChequeBody, [BaseChequeBody EXCEPT !.amount = Undef]}
RouteDates == {DateStr("ymd", d) : d \in Days} \cup {DateStr("bad", 0)}

NextRoutes ==
    \/ PostAccounts(LedgerAccountBody) /\ WithinStore
    \/ DeleteAccount(1)
    \/ \E body \in RouteTransactionBodies :
          PostTransaction(1, body) /\ WithinStore
    \/ \E body \in TransactionEdits : PutTransaction(1, body)
    \/ DeleteTransaction(1)
    \/ \E body \in RouteReceivableBodies :
          PostDailyReceivables(body) /\ UNCHANGED lastPosted /\ WithinStore
    \/ \E body \in RouteReceivableUpdates :
          PutDailyReceivables(body.report_date, body) /\ UNCHANGED lastPosted
    \/ \E d \in Days :
          FinishDailyReceivables(DateStr("ymd", d)) /\ UNCHANGED lastPosted
    \/ \E d \in Days :
          DeleteDailyReceivables(DateStr("ymd", d)) /\ UNCHANGED lastPosted
    \/ \E date \in RouteDates : GetDailyReceivables(date)
    \/ PostDailyReport(ExampleReportBody) /\ WithinStore
    \/ PutDailyReport(1, ExampleReportBody)
    \/ DeleteDailyReport(1)
    \/ \E date \in RouteDates : GetDailyReport(date)
    \/ \E body \in RouteChequeBodies : PostCheque(body) /\ WithinStore
    \/ \E n \in ChequeNumbers : GetCheque(n)
    \/ \E n \in ChequeNumbers : DeleteCheque(n)
    \/ \E n \in ChequeNumbers :
          PatchChequeStatus(n, [status |-> Str(<<"n", "e", "w">>)])
    \/ \E body \in DetailSaves :
          PostChequeDetails(Str(<<"c", "1">>), body) /\ WithinStore
    \/ \E updates \in DetailPatches :
          PatchChequeDetails(Str(<<"c", "1">>), updates)
    \/ \E n \in ChequeNumbers : GetChequeDetails(n)

SpecRoutes == Init /\ [][NextRoutes]_vars

\* The tables.
Tables ==
    <<accounts, transactions, daily_receivables, daily_reports, cheques,
      cheque_details>>

\* C20: a request answered 400 or 404 leaves every table as it was.
C20_RefusalsWriteNothing ==
    [][resp'.status \in {400, 404} => Tables' = Tables]_vars

\* With a report of day 1 in the store, a PUT for day 2 was answered 404
\* and the report of day 1 is as it was posted.
C20_Witness ==
    /\ req.op = "PUT /daily-receivables/:date"
    /\ req.body.report_date = DateStr("ymd", 2)
    /\ resp.status = 404
    /\ \E r \in daily_receivables :
          /\ r.report_date = 1
          /\ r.status = Str(<<"open">>)
          /\ r.report_data = Obj("A")
    /\ cheque_details # {}

-----------------------------------------------------------------------------
(* Claims about the partial update of cheque details. *)

\* The keys of a body whose values are neither null nor undefined.
NamedKeys(u) == {k \in DOMAIN u : u[k] # Null /\ u[k] # Undef}

\* The row with the columns the body names replaced by the body's values.
WithNamedColumns(d, u) ==
    [f \in DOMAIN d |-> IF f \in NamedKeys(u) THEN u[f] ELSE d[f]]

\* C21: PATCH /cheques/:cheque_number/details on a number that has a
\* details row changes exactly the columns named by the body's keys with
\* non-null values, in the rows of that number only, and those rows still
\* carry that number afterwards; with no details row it is answered 404 and
\* with no non-null key 400, and nothing changes.
C21_PatchFrame ==
    [][req'.op = "PATCH /cheques/:cheque_number/details" =>
        LET n == req'.cheque_number
            u == req'.body
            hit == {d \in cheque_details : d.cheque_number = n}
        IN  IF hit = {}
            THEN resp'.status = 404 /\ cheque_details' = cheque_details
            ELSE IF NamedKeys(u) = {}
            THEN resp'.status = 400 /\ cheque_details' = cheque_details
            ELSE /\ cheque_details' =
                       (cheque_details \ hit)
                          \cup {WithNamedColumns(d, u) : d \in hit}
                 /\ \A d \in hit :
                       \E e \in cheque_details' :
                          e.row = d.row /\ e.cheque_number = n]_vars

-----------------------------------------------------------------------------
(* Claims about the status of daily receivables reports. *)

\* The row with the balances and the document of a posted body.
AutoSaved(r, body) ==
    [r EXCEPT !.opening_balance = PostedBalance(body.opening_balance),
              !.closing_balance = PostedBalance(body.closing_balance),
              !.report_data = PostedData(body.report_data)]

\* C22: POST /daily-receivables never changes the status of an existing
\* report: when a row for report_date exists the request replaces only its
\* opening_balance, closing_balance and report_data, and status, id and
\* report_date stay as they were; a row gets status "open" only from the
\* insert branch, when no row for that date exists.
C22_AutoSaveKeepsStatus ==
    [][(req'.op = "POST /daily-receivables" /\ resp'.status = 200) =>
        LET day == req'.body.report_date.day
            hit == {r \in daily_receivables : r.report_date = day}
        IN  IF hit # {}
            THEN /\ daily_receivables' =
                       (daily_receivables \ hit)
                          \cup {AutoSaved(r, req'.body) : r \in hit}
                 /\ \A r \in hit :
                       \E q \in daily_receivables' :
                          /\ q.id = r.id
                          /\ q.status = r.status
                          /\ q.report_date = r.report_date
            ELSE \E q \in daily_receivables' :
                    /\ daily_receivables' = daily_receivables \cup {q}
                    /\ q \notin daily_receivables
                    /\ q.report_date = day
                    /\ q.status = Str(<<"open">>)]_vars

\* A finished report of day 1 has been auto-saved with new balances and is
\* still finished, while the report of day 2 is open.
C22_Witness ==
    /\ req.op = "POST /daily-receivables"
    /\ req.body.report_date = DateStr("ymd", 1)
    /\ req.body.opening_balance = Str(<<"7">>)
    /\ resp.status = 200
    /\ resp.body.status = Str(<<"finished">>)
    /\ resp.body.opening_balance = Num(7)
    /\ resp.body.report_date = 1
    /\ resp.body \in daily_receivables
    /\ \E r \in daily_receivables :
          r.report_date = 2 /\ r.status = Str(<<"open">>)

-----------------------------------------------------------------------------
(* PUT /daily-receivables/:date with and without a status. *)

InitReceivablesPut ==
    EmptyDatabase /\ constraints \in SUBSET {StatusNotNull}

\* Bodies of PUT /daily-receivables/:date, some without status.
ReceivableUpdatesAnyStatus ==
    [report_date : {DateStr("ymd", d) : d \in Days},
     opening_balance : {Num(7)},
     closing_balance : {Num(0)},
     report_data : {Obj("A"), Obj("B")},
     status : {Undef, Str(<<"finished">>)}]

NextReceivablesPut ==
    \/ \E body \in ReceivableAutoSaves :
          PostDailyReceivables(body) /\ UNCHANGED lastPosted
    \/ \E body \in ReceivableUpdatesAnyStatus :
          PutDailyReceivables(body.report_date, body) /\ UNCHANGED lastPosted
    \/ \E d \in Days :
          FinishDailyReceivables(DateStr("ymd", d)) /\ UNCHANGED lastPosted

SpecReceivablesPut == InitReceivablesPut /\ [][NextReceivablesPut]_vars

\* C23: a PUT /daily-receivables/:date whose body has no status leaves the
\* status of the report it updates as it was and replaces the report's
\* opening_balance, closing_balance and report_data by those of the body.
C23_PutWithoutStatusKeepsStatus ==
    [][(/\ req'.op = "PUT /daily-receivables/:date"
        /\ req'.body.status = Undef) =>
        LET body == req'.body
            hit == {r \in daily_receivables :
                       r.report_date = body.report_date.day}
        IN  daily_receivables' =
               (daily_receivables \ hit)
                  \cup {[r EXCEPT
                            !.opening_balance = body.opening_balance,
                            !.closing_balance = body.closing_balance,
                            !.report_data = body.report_data] :
                          r \in hit}]_vars

=============================================================================
